---------------------------- MODULE Spec2Model ----------------------------
(***************************************************************************)
(* A model of hls-stream-extractor: the request admission queue           *)
(* (api/requestQueue.js), the browser pool (api/browserPool.js, here      *)
(* src/api/index.js lines 41-155), the result cache (api/cache.js, here   *)
(* src/api/health.js lines 18-84), the extraction wrapper and engine      *)
(* (api/extract.js, here src/unnamed/part_001), the HTTP handler          *)
(* (src/server.js), and what one run of an extraction engine captures and *)
(* returns (src/unnamed/part_001 and the aggressive engine of             *)
(* src/unnamed/part_002).                                                 *)
(*                                                                         *)
(* The runtime is single-threaded and cooperative: every action below is  *)
(* one synchronous run of JavaScript between two suspension points (an    *)
(* await, a timer, an I/O completion).                                     *)
(***************************************************************************)
EXTENDS Integers, Sequences, FiniteSets, TLC

(***************************************************************************)
(* Program constants.                                                      *)
(***************************************************************************)
\* new RequestQueue(2)
maxConcurrent == 2

\* new BrowserPool(2)
poolSize == 2

\* this.ttl = 5 * 60 * 1000, in minutes (one clock tick of the model is a minute)
ttl == 5

\* CONFIG.RETRY_COUNT
RETRY_COUNT == 1

\* the cache lifetime the README announces ("30-minute intelligent cache"), in minutes
DocumentedTtl == 30

(***************************************************************************)
(* Bounds of the model.                                                    *)
(***************************************************************************)
\* process() calls submitted to the admission queue
NumCalls == 4

\* extractStreamsInternal runs that use the browser pool
NumClients == 2

\* callers of the pool's interface (acquire, then release)
NumCallers == 3

\* urls and results the cache is used with
NumUrls == 2

NumResults == 2

\* browsers the environment lets launch successfully, over a whole run
MaxBrowsers == 3

\* browsers that lose their connection, over a whole run
MaxCrashes == 1

\* the simulated clock stops here
MaxClock == 7

\* inbound /extract requests
NumRequests == 3

\* stream candidates and subtitles one extraction run captures, together
MaxCaptured == 2

\* iterations of the click loop of one run that throw
MaxClickErrors == 1

\* pages opened in one pooled browser: those of its extractions and their popups
MaxPages == 4

\* let browser = null: no browser (the browsers are numbered from 1)
NoBrowser == 0

NoResult == << >>

\* the successful extraction results: { success: true, stream_url, ... }
Results == { [success |-> TRUE, id |-> i] : i \in 1..NumResults }

\* what get() returns for a missing or an expired entry
null == [success |-> FALSE, id |-> 0]

\* return { success: false, error: 'No streams found' }
NoStreams == [success |-> FALSE, error |-> "No streams found"]

\* return { success: false, error: error.message }, from the catch block
Caught == [success |-> FALSE, error |-> "error.message"]

\* the successful result of the extraction made for client c
Found(c) == [success |-> TRUE, id |-> c]

\* what the try and catch blocks of extractStreamsInternal can return
InternalResults(c) == {Found(c), NoStreams, Caught}

VARIABLES
    \* ---- RequestQueue (src/api/requestQueue.js)
    running,        \* this.running
    queue,          \* this.queue
    qpc,            \* where each process() call stands
    qret,           \* what each process() call gave back to its caller
    qwaited,        \* the call found the queue at capacity at least once
    \* ---- BrowserPool (src/api/index.js)
    browsers,       \* this.browsers
    available,      \* this.available
    initializing,   \* this.initializing
    initI,          \* the loop index i of initialize(); poolSize when none is running
    initBy,         \* who called the running initialize(): 0 the start-up, c client c
    initLaunched,   \* the browsers launched by initialize() calls so far
    connected,      \* browsers whose isConnected() is true
    closed,         \* browsers on which close() was called
    nextId,         \* the next browser puppeteer.launch() creates
    crashes,        \* how many browsers have lost their connection
    \* ---- users of the pool: acquire() and extractStreamsInternal
    pc,             \* where each client stands
    taken,          \* acquire's local `browser` (the instance shifted from available)
    handle,         \* what acquire() returned (extractStreamsInternal's `browser`)
    isPoolBrowser,  \* extractStreamsInternal's isPoolBrowser
    callPool,       \* how the client found the pool when it called acquire()
    abandoned,      \* the outer deadline of the client's extraction has fired
    decided,        \* the value extractStreamsInternal's try or catch block returns
    settled,        \* how extractStreamsInternal's promise settled
    \* ---- extractStreams (src/unnamed/part_001)
    xurl,           \* the targetUrl of each extractStreams() call, 0 before the call
    xret,           \* how each extractStreams() promise settled
    \* ---- ResultCache (src/api/health.js)
    cache,          \* this.cache: url -> entry, or null when absent
    now,            \* Date.now(), in minutes
    lastSet,        \* per url, the last set(): its result and time
    lastGet,        \* the last get(): its url, what it returned, whether it deleted the entry
    \* ---- HTTP handler (src/server.js)
    rpc,            \* where each request's handler stands
    rstatus,        \* the status each request was answered with, 0 when none
    rattempts,      \* how many extractStreams() calls each request has made
    rfirst,         \* how the first extractStreams() call of each request ended
    rlast,          \* how the latest extractStreams() call of each request ended
    rquery,         \* the url parameter each request came with
    \* ---- one run of an extraction engine (src/unnamed/part_001, part_002)
    engine,         \* which engine runs
    epc,            \* where the run stands
    capturedStreams,    \* capturedStreams, in insertion order
    capturedSubtitles,  \* capturedSubtitles, in insertion order
    bestStream,     \* bestStream
    foundMasterPlaylist,    \* foundMasterPlaylist
    clickAttempts,  \* attempts (pooled engine), clickAttempts (aggressive engine)
    iterations,     \* how many iterations of the click loop have been made
    handled,        \* abort() and continue() calls on the latest intercepted request
    eresult,        \* what the run returned
    \* ---- the popup killers of one pooled browser (src/unnamed/part_001)
    ppc,            \* where the browser stands: pooled, or in an extraction
    page,           \* the page of the running extraction, 0 if none
    pages,          \* the open pages of the browser, but its first
    killers,        \* the pages whose 'targetcreated' listeners are registered
    created,        \* listener calls that await target.page(): <<listener, page>>
    opened          \* how many pages have been opened so far

queueVars == <<running, queue, qpc, qret, qwaited>>
poolVars == <<browsers, available, initializing, initI, initBy, initLaunched,
              connected, closed, nextId, crashes>>
clientVars == <<pc, taken, handle, isPoolBrowser, callPool, abandoned, decided, settled>>
extractVars == <<xurl, xret>>
cacheVars == <<cache, now, lastSet, lastGet>>
serverVars == <<rpc, rstatus, rattempts, rfirst, rlast, rquery>>
captureVars == <<engine, epc, capturedStreams, capturedSubtitles, bestStream,
                 foundMasterPlaylist, clickAttempts, iterations, handled, eresult>>
popupVars == <<ppc, page, pages, killers, created, opened>>

vars == <<queueVars, poolVars, clientVars, extractVars, cacheVars, serverVars, captureVars, popupVars>>

notQueueVars == <<poolVars, clientVars, extractVars, cacheVars, serverVars, captureVars, popupVars>>
notPoolVars == <<queueVars, extractVars, cacheVars, serverVars, captureVars, popupVars>>
notCacheVars == <<queueVars, poolVars, clientVars, extractVars, serverVars, captureVars, popupVars>>
notServerVars == <<queueVars, poolVars, clientVars, extractVars, cacheVars, captureVars, popupVars>>
notCaptureVars == <<queueVars, poolVars, clientVars, extractVars, cacheVars, serverVars, popupVars>>
notPopupVars == <<queueVars, poolVars, clientVars, extractVars, cacheVars, serverVars, captureVars>>

Range(s) == { s[i] : i \in DOMAIN s }

(***************************************************************************)
(* RequestQueue                                                            *)
(***************************************************************************)
QCallers == 1..NumCalls

\* what the task of call c resolves to, and the tasks that reject instead
TaskResult(c) == <<"result", c>>

Outcomes(c) == { [ok |-> TRUE, value |-> TaskResult(c)], [ok |-> FALSE, value |-> <<"error", c>>] }

InitQueue ==
    /\ running = 0
    /\ queue = << >>
    /\ qpc = [c \in QCallers |-> "idle"]
    /\ qret = [c \in QCallers |-> NoResult]
    /\ qwaited = [c \in QCallers |-> FALSE]

\* a faulty variant of AtCapacity: an off-by-one in the comparison
AtCapacity_offByOne == running > maxConcurrent

\* while (this.running >= this.maxConcurrent)
AtCapacity == running >= maxConcurrent

\* a faulty variant of SlotFreed: the finally block forgets the decrement
SlotFreed_leak(r) == r

\* finally { this.running--; }
SlotFreed(r) == r - 1

\* this.running++ and the call of fn(), or the await of the 500 ms timer
Admit(c) ==
    IF AtCapacity
    THEN /\ qpc' = [qpc EXCEPT ![c] = "waiting"]
         /\ qwaited' = [qwaited EXCEPT ![c] = TRUE]
         /\ UNCHANGED running
    ELSE /\ running' = running + 1
         /\ qpc' = [qpc EXCEPT ![c] = "running"]
         /\ UNCHANGED qwaited

\* a caller calls process(fn): the code up to its first await
Process(c) ==
    /\ qpc[c] = "idle"
    /\ Admit(c)
    /\ UNCHANGED <<queue, qret, notQueueVars>>

\* the 500 ms timer of a waiting call fires: the while condition is read again
Wake(c) ==
    /\ qpc[c] = "waiting"
    /\ Admit(c)
    /\ UNCHANGED <<queue, qret, notQueueVars>>

\* fn() settles: the finally block runs and process() returns or rethrows
Complete(c) ==
    /\ qpc[c] = "running"
    /\ \E o \in Outcomes(c) :
          /\ qpc' = [qpc EXCEPT ![c] = IF o.ok THEN "returned" ELSE "threw"]
          /\ qret' = [qret EXCEPT ![c] = o.value]
    /\ running' = SlotFreed(running)
    /\ UNCHANGED <<queue, qwaited, notQueueVars>>

\* getStats()
getStats == [running |-> running, queued |-> Len(queue), capacity |-> maxConcurrent]

NextQueue ==
    \E c \in QCallers :
        \/ Process(c)
        \/ Wake(c)
        \/ Complete(c)

(***************************************************************************)
(* BrowserPool                                                             *)
(***************************************************************************)
Clients == DOMAIN pc

\* the constructor, then the initialize() call at module load, up to its first await
InitPool ==
    /\ browsers = << >>
    /\ available = << >>
    /\ initializing = TRUE
    /\ initI = 0
    /\ initBy = 0
    /\ initLaunched = {}
    /\ connected = {}
    /\ closed = {}
    /\ nextId = 1
    /\ crashes = 0

\* n users of the pool, none of which has called acquire() yet
InitClients(n) ==
    /\ pc = [c \in 1..n |-> "idle"]
    /\ taken = [c \in 1..n |-> NoBrowser]
    /\ handle = [c \in 1..n |-> NoBrowser]
    /\ isPoolBrowser = [c \in 1..n |-> FALSE]
    /\ callPool = [c \in 1..n |-> "-"]
    /\ abandoned = [c \in 1..n |-> FALSE]
    /\ decided = [c \in 1..n |-> NoResult]
    /\ settled = [c \in 1..n |-> NoResult]
    /\ xurl = [c \in 1..n |-> 0]
    /\ xret = [c \in 1..n |-> NoResult]

\* createBrowser(): puppeteer.launch() resolves with a new, connected browser
\* (the environment lets at most MaxBrowsers launches succeed) or rejects
LaunchOutcomes == IF nextId <= MaxBrowsers THEN {TRUE, FALSE} ELSE {FALSE}

\* browser.close() (its rejection is swallowed by every caller)
Close(b) ==
    /\ closed' = closed \cup {b}
    /\ connected' = connected \ {b}

\* a faulty variant of InitializingAfterLoop: the flag is never reset
InitializingAfterLoop_stuck == initializing

\* this.initializing = false, after the loop
InitializingAfterLoop == FALSE

\* an initialize() is inside its loop
InitRunning == initI < poolSize

\* for (let i = 0; i < this.poolSize; i++): index i was the last one
InitLoopEnds(i) == i + 1 >= poolSize

\* initialize(): one launch of the loop settles; a failed launch is caught and
\* the loop goes on; after the last one the flag is reset
InitLaunch ==
    /\ InitRunning
    /\ \E ok \in LaunchOutcomes :
          IF ok
          THEN /\ browsers' = Append(browsers, nextId)
               /\ available' = Append(available, nextId)
               /\ connected' = connected \cup {nextId}
               /\ initLaunched' = initLaunched \cup {nextId}
               /\ nextId' = nextId + 1
          ELSE UNCHANGED <<browsers, available, connected, initLaunched, nextId>>
    /\ IF InitLoopEnds(initI)
       THEN /\ initializing' = InitializingAfterLoop
            /\ initI' = poolSize
            /\ initBy' = 0
       ELSE /\ initI' = initI + 1
            /\ UNCHANGED <<initializing, initBy>>
    /\ UNCHANGED crashes
    /\ UNCHANGED notPoolVars
    /\ UNCHANGED <<closed, clientVars>>

\* a browser process dies or loses its connection
Disconnect(b) ==
    /\ b \in connected
    /\ crashes < MaxCrashes
    /\ connected' = connected \ {b}
    /\ crashes' = crashes + 1
    /\ UNCHANGED notPoolVars
    /\ UNCHANGED <<browsers, available, initializing, initI, initBy, initLaunched,
                   closed, nextId, clientVars>>

\* a faulty variant of AvailableAfterShift: the instance is read but left in the set
AvailableAfterShift_peek(av) == av

\* this.available.shift(): what is left in the available set
AvailableAfterShift(av) == Tail(av)

\* acquire() from `while (this.initializing)` on, run without suspension:
\* wait 100 ms, or shift an available browser, or launch a temporary one
TakeOrLaunch(c) ==
    IF initializing
    THEN /\ pc' = [pc EXCEPT ![c] = "waitInit"]
         /\ UNCHANGED <<available, taken, handle>>
    ELSE /\ IF Len(available) > 0
            THEN /\ available' = AvailableAfterShift(available)
                 /\ taken' = [taken EXCEPT ![c] = Head(available)]
                 /\ IF Head(available) \in connected
                    THEN /\ handle' = [handle EXCEPT ![c] = Head(available)]
                         /\ pc' = [pc EXCEPT ![c] = "acquired"]
                    ELSE /\ pc' = [pc EXCEPT ![c] = "launchReplace"]
                         /\ UNCHANGED handle
            ELSE /\ pc' = [pc EXCEPT ![c] = "launchTemp"]
                 /\ UNCHANGED <<available, taken, handle>>

\* how a caller of acquire() finds the pool: with an instance available; or
\* exhausted (initialized, managed instances exist, none is available); or cold
\* (none available, and the managed set is empty or being initialized)
PoolLooks ==
    IF Len(available) > 0 THEN "available"
    ELSE IF ~initializing /\ Len(browsers) > 0 THEN "exhausted"
    ELSE "cold"

\* acquire() is called for client c: the code up to its first await
AcquireCallPool(c) ==
    /\ pc[c] = "idle"
    /\ callPool' = [callPool EXCEPT ![c] = PoolLooks]
    /\ IF Len(browsers) = 0 /\ ~initializing
       THEN \* await this.initialize(), which runs up to its first launch
            /\ initializing' = TRUE
            /\ initI' = 0
            /\ initBy' = c
            /\ pc' = [pc EXCEPT ![c] = "awaitInit"]
            /\ UNCHANGED <<available, taken, handle>>
       ELSE /\ TakeOrLaunch(c)
            /\ UNCHANGED <<initializing, initI, initBy>>
    /\ UNCHANGED crashes
    /\ UNCHANGED <<browsers, initLaunched, connected, closed, nextId,
                   isPoolBrowser, abandoned, decided, settled>>

\* a client calls acquire()
AcquireCall(c) ==
    \* the clients are numbered in the order of their calls
    /\ IF c = 1 THEN TRUE ELSE pc[c - 1] # "idle"
    /\ AcquireCallPool(c)
    /\ UNCHANGED notPoolVars

\* the initialize() this acquire() awaited has returned
AcquireAfterInit(c) ==
    /\ pc[c] = "awaitInit"
    /\ ~(InitRunning /\ initBy = c)
    /\ TakeOrLaunch(c)
    /\ UNCHANGED crashes
    /\ UNCHANGED notPoolVars
    /\ UNCHANGED <<browsers, initializing, initI, initBy, initLaunched, connected,
                   closed, nextId, isPoolBrowser, callPool, abandoned, decided, settled>>

\* the 100 ms timer of an acquire() waiting on initialization fires
AcquireWake(c) ==
    /\ pc[c] = "waitInit"
    /\ TakeOrLaunch(c)
    /\ UNCHANGED crashes
    /\ UNCHANGED notPoolVars
    /\ UNCHANGED <<browsers, initializing, initI, initBy, initLaunched, connected,
                   closed, nextId, isPoolBrowser, callPool, abandoned, decided, settled>>

\* this.browsers.push(newBrowser): the dead instance is not spliced out
ManagedAfterReplace(bs, dead, fresh) == Append(bs, fresh)

\* the launch replacing a disconnected instance settles
AcquireReplaceLaunched(c) ==
    /\ pc[c] = "launchReplace"
    /\ \E ok \in LaunchOutcomes :
          IF ok
          THEN /\ browsers' = ManagedAfterReplace(browsers, taken[c], nextId)
               /\ connected' = connected \cup {nextId}
               /\ nextId' = nextId + 1
               /\ handle' = [handle EXCEPT ![c] = nextId]
               /\ pc' = [pc EXCEPT ![c] = "acquired"]
          ELSE /\ pc' = [pc EXCEPT ![c] = "acquireFailed"]
               /\ UNCHANGED <<browsers, connected, nextId, handle>>
    /\ UNCHANGED crashes
    /\ UNCHANGED notPoolVars
    /\ UNCHANGED <<available, initializing, initI, initBy, initLaunched, closed,
                   taken, isPoolBrowser, callPool, abandoned, decided, settled>>

\* the launch of a temporary instance settles
AcquireTempLaunched(c) ==
    /\ pc[c] = "launchTemp"
    /\ \E ok \in LaunchOutcomes :
          IF ok
          THEN /\ connected' = connected \cup {nextId}
               /\ nextId' = nextId + 1
               /\ handle' = [handle EXCEPT ![c] = nextId]
               /\ pc' = [pc EXCEPT ![c] = "acquired"]
          ELSE /\ pc' = [pc EXCEPT ![c] = "acquireFailed"]
               /\ UNCHANGED <<connected, nextId, handle>>
    /\ UNCHANGED crashes
    /\ UNCHANGED notPoolVars
    /\ UNCHANGED <<browsers, available, initializing, initI, initBy, initLaunched,
                   closed, taken, isPoolBrowser, callPool, abandoned, decided, settled>>

\* a faulty variant of release: the instance is pooled whatever the flag says
release_alwaysPools(b, temporary) ==
    /\ available' = Append(available, b)
    /\ UNCHANGED <<connected, closed>>

\* release(browser, temporary)
release(b, temporary) ==
    IF temporary \/ b \notin Range(browsers)
    THEN /\ Close(b)
         /\ UNCHANGED available
    ELSE /\ available' = Append(available, b)
         /\ UNCHANGED <<connected, closed>>

\* extractStreamsInternal returns: its locals are gone
Returns(c) ==
    /\ pc' = [pc EXCEPT ![c] = "done"]
    /\ taken' = [taken EXCEPT ![c] = NoBrowser]
    /\ handle' = [handle EXCEPT ![c] = NoBrowser]
    /\ isPoolBrowser' = [isPoolBrowser EXCEPT ![c] = FALSE]
    /\ callPool' = [callPool EXCEPT ![c] = "-"]
    /\ abandoned' = [abandoned EXCEPT ![c] = FALSE]
    /\ decided' = [decided EXCEPT ![c] = NoResult]

\* extractStreamsInternal after `browser = await browserPool.acquire()`:
\* isPoolBrowser = browserPool.browsers.includes(browser), then the page work starts
ExtractionStarts(c) ==
    /\ pc[c] = "acquired"
    /\ isPoolBrowser' = [isPoolBrowser EXCEPT ![c] = handle[c] \in Range(browsers)]
    /\ pc' = [pc EXCEPT ![c] = "working"]
    /\ taken' = [taken EXCEPT ![c] = NoBrowser]        \* acquire()'s locals are gone
    /\ callPool' = [callPool EXCEPT ![c] = "-"]
    /\ UNCHANGED notPoolVars
    /\ UNCHANGED <<poolVars, handle, abandoned, decided, settled>>

\* a faulty variant of Settle: a failed cleanup rejects the promise
Settle_surfaces(result, cleanupOk) ==
    IF cleanupOk
    THEN [kind |-> "resolved", value |-> result]
    ELSE [kind |-> "rejected", value |-> Caught]

\* how the promise of extractStreamsInternal settles: the finally block has no
\* return and its own try/catch rethrows nothing, so with the value already returned
Settle(result, cleanupOk) == [kind |-> "resolved", value |-> result]

\* acquire() rejected: the catch block returns a failure, and the finally block
\* finds browser = null
ExtractionFailsToAcquirePool(c) ==
    /\ pc[c] = "acquireFailed"
    /\ settled' = [settled EXCEPT ![c] = Settle(Caught, TRUE)]
    /\ Returns(c)
    /\ UNCHANGED poolVars

ExtractionFailsToAcquire(c) ==
    /\ ExtractionFailsToAcquirePool(c)
    /\ UNCHANGED notPoolVars

\* the try block ends, by one of its returns or by an exception that the catch
\* block turns into a failure; the finally block starts and awaits browser.pages()
TryEnds(c) ==
    /\ pc[c] = "working"
    /\ \E r \in InternalResults(c) : decided' = [decided EXCEPT ![c] = r]
    /\ pc' = [pc EXCEPT ![c] = "cleanup"]
    /\ UNCHANGED notPoolVars
    /\ UNCHANGED <<poolVars, taken, handle, isPoolBrowser, callPool, abandoned, settled>>

\* browser.pages() of the finally block: it cannot fail on a connected browser;
\* on a disconnected one it may reject or not
PagesOutcomes(b) == IF b \in connected THEN {TRUE} ELSE {TRUE, FALSE}

\* the finally block after browser.pages(): the extra pages are closed, then a
\* pool browser is released and a temporary one closed; if that throws, the
\* browser is closed; then the promise settles
ExtractionEndsPool(c) ==
    /\ pc[c] = "cleanup"
    /\ \E pagesOk \in PagesOutcomes(handle[c]) :
          /\ IF pagesOk
             THEN IF isPoolBrowser[c]
                  THEN release(handle[c], FALSE)
                  ELSE /\ Close(handle[c])
                       /\ UNCHANGED available
             ELSE /\ Close(handle[c])
                  /\ UNCHANGED available
          /\ settled' = [settled EXCEPT ![c] = Settle(decided[c], pagesOk)]
    /\ Returns(c)
    /\ UNCHANGED crashes
    /\ UNCHANGED <<browsers, initializing, initI, initBy, initLaunched, nextId>>

ExtractionEnds(c) ==
    /\ ExtractionEndsPool(c)
    /\ UNCHANGED notPoolVars

\* the 50 s timer of extractStreams fires while its extraction has not settled:
\* the caller stops waiting, the extraction runs on
DeadlineFiresPool(c) ==
    /\ pc[c] \notin {"idle", "done"}
    /\ ~abandoned[c]
    /\ abandoned' = [abandoned EXCEPT ![c] = TRUE]
    /\ UNCHANGED <<poolVars, pc, taken, handle, isPoolBrowser, callPool, decided, settled>>

DeadlineFires(c) ==
    /\ DeadlineFiresPool(c)
    /\ UNCHANGED notPoolVars

\* a caller of the pool's interface gives its instance back: release(handle, temporary)
ReleaseCall(c, temporary) ==
    /\ pc[c] = "acquired"
    /\ release(handle[c], temporary)
    /\ pc' = [pc EXCEPT ![c] = IF temporary THEN "releasedTemporary" ELSE "released"]
    /\ UNCHANGED crashes
    /\ UNCHANGED notPoolVars
    /\ UNCHANGED <<browsers, initializing, initI, initBy, initLaunched, nextId,
                   taken, handle, isPoolBrowser, callPool, abandoned, decided, settled>>

Acquire(c) ==
    \/ AcquireCall(c)
    \/ AcquireAfterInit(c)
    \/ AcquireWake(c)
    \/ AcquireReplaceLaunched(c)
    \/ AcquireTempLaunched(c)

\* the pool used by the program: concurrent extractStreamsInternal runs
NextPool ==
    \/ InitLaunch
    \/ \E b \in 1..MaxBrowsers + 1 : Disconnect(b)
    \/ \E c \in 1..NumClients :
          \/ Acquire(c)
          \/ ExtractionStarts(c)
          \/ ExtractionFailsToAcquire(c)
          \/ TryEnds(c)
          \/ ExtractionEnds(c)
          \/ DeadlineFires(c)

\* the pool used through its interface: acquire(), then release(handle, temporary)
NextPoolApi ==
    \/ InitLaunch
    \/ \E b \in 1..MaxBrowsers + 1 : Disconnect(b)
    \/ \E c \in 1..NumCallers :
          \/ Acquire(c)
          \/ \E temporary \in BOOLEAN : ReleaseCall(c, temporary)

(***************************************************************************)
(* ResultCache                                                             *)
(***************************************************************************)
Urls == 1..NumUrls

\* the constructor: an empty Map
InitCache ==
    /\ cache = << >>
    /\ now = 0
    /\ lastSet = << >>
    /\ lastGet = << >>

\* a faulty variant of Expired: the age is not compared with the ttl
Expired_anyAge(entry) == now - entry.timestamp > 0

\* Date.now() - entry.timestamp > this.ttl
Expired(entry) == now - entry.timestamp > ttl

\* f with key k mapped to v (Map.set)
MapSet(f, k, v) == [x \in DOMAIN f \cup {k} |-> IF x = k THEN v ELSE f[x]]

\* a faulty variant of MapDelete: nothing is removed
MapDelete_keep(f, ks) == f

\* f without the keys in ks (Map.delete)
MapDelete(f, ks) == [x \in DOMAIN f \ ks |-> f[x]]

\* set(url, result): its effect on the Map
set(k, r) ==
    /\ cache' = MapSet(cache, k, [result |-> r, timestamp |-> now])
    /\ lastSet' = MapSet(lastSet, k, [result |-> r, timestamp |-> now])

\* set(url, result)
Set(k, r) ==
    /\ set(k, r)
    /\ UNCHANGED <<now, lastGet>>
    /\ UNCHANGED notCacheVars

\* what get(url) returns: the entry's result, or null for a missing or expired entry
Cached(k) ==
    IF k \in DOMAIN cache /\ ~Expired(cache[k]) THEN cache[k].result ELSE null

\* get(url): its effect on the Map (an expired entry is deleted)
get(k) ==
    /\ IF k \in DOMAIN cache /\ Expired(cache[k])
       THEN cache' = MapDelete(cache, {k})
       ELSE UNCHANGED cache
    /\ lastGet' = [url |-> k, result |-> Cached(k),
                   evicted |-> k \in DOMAIN cache /\ Expired(cache[k])]

\* get(url)
Get(k) ==
    /\ get(k)
    /\ UNCHANGED <<now, lastSet>>
    /\ UNCHANGED notCacheVars

\* a faulty variant of ExpiredKeys: the sweep takes every entry
ExpiredKeys_all == DOMAIN cache

\* cleanup(): the entries with now - entry.timestamp > this.ttl
ExpiredKeys == { k \in DOMAIN cache : Expired(cache[k]) }

\* cleanup(), which the constructor's interval timer calls
Sweep ==
    /\ cache' = MapDelete(cache, ExpiredKeys)
    /\ UNCHANGED <<now, lastSet, lastGet>>
    /\ UNCHANGED notCacheVars

\* a minute passes
Tick ==
    /\ now < MaxClock
    /\ now' = now + 1
    /\ UNCHANGED <<cache, lastSet, lastGet>>
    /\ UNCHANGED notCacheVars

NextCache ==
    \/ \E k \in Urls, r \in Results : Set(k, r)
    \/ \E k \in Urls : Get(k)
    \/ Sweep
    \/ Tick

(***************************************************************************)
(* extractStreams (src/unnamed/part_001): the cache lookup, the race of    *)
(* extractStreamsInternal with the 50 s timer, the store of the result     *)
(***************************************************************************)
\* a faulty variant of Hit: the cached result is ignored
Hit_never(cached) == FALSE

\* if (cached)
Hit(cached) == cached # null

\* a faulty variant of ShouldCache: every result is stored
ShouldCache_always(result) == TRUE

\* if (result.success)
ShouldCache(result) == result.success

\* the rejection of the 50 s timer: new Error('Extraction timeout')
Timeout == [success |-> FALSE, error |-> "Extraction timeout"]

\* extractStreams(targetUrl, ...) is called: the cache is read; on a hit the
\* cached result is returned; otherwise extractStreamsInternal starts and runs
\* up to the first await of browserPool.acquire()
extractStreams(c, k) ==
    /\ xurl[c] = 0
    \* the calls are numbered in their order
    /\ IF c = 1 THEN TRUE ELSE xurl[c - 1] # 0
    /\ xurl' = [xurl EXCEPT ![c] = k]
    /\ get(k)
    /\ IF Hit(Cached(k))
       THEN /\ xret' = [xret EXCEPT ![c] = [kind |-> "resolved", value |-> Cached(k)]]
            /\ UNCHANGED <<poolVars, clientVars>>
       ELSE /\ AcquireCallPool(c)
            /\ UNCHANGED xret
    /\ UNCHANGED <<now, lastSet, queueVars, serverVars, captureVars, popupVars>>

\* extractStreams after `await Promise.race(...)`, when extractStreamsInternal
\* has settled with s: nothing if the timer had already rejected the race;
\* otherwise a successful result is stored, and the result is returned
RaceWon(c, s) ==
    IF abandoned[c]
    THEN UNCHANGED <<cache, lastSet, xret>>
    ELSE IF s.kind = "resolved"
    THEN /\ IF ShouldCache(s.value)
            THEN set(xurl[c], s.value)
            ELSE UNCHANGED <<cache, lastSet>>
         /\ xret' = [xret EXCEPT ![c] = s]
    ELSE /\ UNCHANGED <<cache, lastSet>>
         /\ xret' = [xret EXCEPT ![c] = s]

\* extractStreamsInternal ends, and extractStreams goes on
InternalEnds(c) ==
    /\ ExtractionEndsPool(c)
    /\ RaceWon(c, settled'[c])
    /\ UNCHANGED <<now, lastGet, xurl, queueVars, serverVars, captureVars, popupVars>>

\* extractStreamsInternal ends without a browser, and extractStreams goes on
InternalFailsToAcquire(c) ==
    /\ ExtractionFailsToAcquirePool(c)
    /\ RaceWon(c, settled'[c])
    /\ UNCHANGED <<now, lastGet, xurl, queueVars, serverVars, captureVars, popupVars>>

\* the 50 s timer fires first: the race rejects, extractStreams throws
RaceLost(c) ==
    /\ DeadlineFiresPool(c)
    /\ xret' = [xret EXCEPT ![c] = [kind |-> "rejected", value |-> Timeout]]
    /\ UNCHANGED <<cacheVars, xurl, queueVars, serverVars, captureVars, popupVars>>

NextExtract ==
    \/ InitLaunch
    \/ \E b \in 1..MaxBrowsers + 1 : Disconnect(b)
    \/ \E c \in 1..NumClients :
          \/ \E k \in Urls : extractStreams(c, k)
          \/ AcquireAfterInit(c)
          \/ AcquireWake(c)
          \/ AcquireReplaceLaunched(c)
          \/ AcquireTempLaunched(c)
          \/ ExtractionStarts(c)
          \/ TryEnds(c)
          \/ InternalEnds(c)
          \/ InternalFailsToAcquire(c)
          \/ RaceLost(c)
    \/ Sweep
    \/ Tick

(***************************************************************************)
(* HTTP handler of /api/extract (src/server.js)                            *)
(***************************************************************************)
Requests == 1..NumRequests

InitServer ==
    /\ rpc = [r \in Requests |-> "idle"]
    /\ rstatus = [r \in Requests |-> 0]
    /\ rattempts = [r \in Requests |-> 0]
    /\ rfirst = [r \in Requests |-> "-"]
    /\ rlast = [r \in Requests |-> "-"]
    /\ rquery = [r \in Requests |-> "-"]

\* the requests whose handler is inside an extractStreams() call
Extracting == { r \in Requests : rpc[r] \in {"attempt1", "attempt2"} }

\* the url parameter of a request: absent (or empty), not parseable by
\* new URL(), or well-formed
Queries == {"missing", "malformed", "valid"}

\* a faulty variant of Validated: only the presence of the parameter is checked
Validated_presentOnly(q) == ~(q = "missing")

\* the two checks of the handler let the parameter through: it is there, and
\* new URL(targetUrl) does not throw
Validated(q) == ~(q = "missing") /\ ~(q = "malformed")

\* a request arrives: the url parameter is checked, and for a well-formed one
\* extractStreams() is called, directly
RequestArrives(r) ==
    /\ rpc[r] = "idle"
    /\ \E q \in Queries :
          /\ rquery' = [rquery EXCEPT ![r] = q]
          /\ IF Validated(q)
             THEN /\ rpc' = [rpc EXCEPT ![r] = "attempt1"]
                  /\ rattempts' = [rattempts EXCEPT ![r] = 1]
                  /\ UNCHANGED rstatus
             ELSE /\ rpc' = [rpc EXCEPT ![r] = "responded"]
                  /\ rstatus' = [rstatus EXCEPT ![r] = 400]
                  /\ UNCHANGED rattempts
    /\ UNCHANGED <<rfirst, rlast>>
    /\ UNCHANGED notServerVars

\* how an extractStreams() call can end for its caller: it resolves with a
\* successful result, with the failure result of a run that found no stream
\* ("failure"), or with the failure result of the catch block, as when no
\* browser could be acquired ("caught"); or its 50 s timer rejects it
AttemptOutcomes == {"success", "failure", "caught", "timeout"}

\* if (!result.success && CONFIG.RETRY_COUNT > 0)
Retries(outcome) == outcome \in {"failure", "caught"} /\ RETRY_COUNT > 0

\* res.writeHead(200) if (result.success), res.writeHead(404) otherwise
StatusOf(outcome) == IF outcome = "success" THEN 200 ELSE 404

\* the first extractStreams() settles; a rejection is caught nowhere in the
\* handler, which ends there without an answer
FirstAttemptSettles(r) ==
    /\ rpc[r] = "attempt1"
    /\ \E o \in AttemptOutcomes :
          /\ rfirst' = [rfirst EXCEPT ![r] = o]
          /\ rlast' = [rlast EXCEPT ![r] = o]
          /\ IF o = "timeout"
             THEN /\ rpc' = [rpc EXCEPT ![r] = "threw"]
                  /\ UNCHANGED rstatus
             ELSE IF Retries(o)
             THEN /\ rpc' = [rpc EXCEPT ![r] = "retryWait"]
                  /\ UNCHANGED rstatus
             ELSE /\ rpc' = [rpc EXCEPT ![r] = "responded"]
                  /\ rstatus' = [rstatus EXCEPT ![r] = StatusOf(o)]
    /\ UNCHANGED <<rattempts, rquery>>
    /\ UNCHANGED notServerVars

\* await wait(1000) ends: the retry calls extractStreams() again
RetryStarts(r) ==
    /\ rpc[r] = "retryWait"
    /\ rpc' = [rpc EXCEPT ![r] = "attempt2"]
    /\ rattempts' = [rattempts EXCEPT ![r] = rattempts[r] + 1]
    /\ UNCHANGED <<rstatus, rfirst, rlast, rquery>>
    /\ UNCHANGED notServerVars

\* the second extractStreams() settles
RetrySettles(r) ==
    /\ rpc[r] = "attempt2"
    /\ \E o \in AttemptOutcomes :
          /\ rlast' = [rlast EXCEPT ![r] = o]
          /\ IF o = "timeout"
             THEN /\ rpc' = [rpc EXCEPT ![r] = "threw"]
                  /\ UNCHANGED rstatus
             ELSE /\ rpc' = [rpc EXCEPT ![r] = "responded"]
                  /\ rstatus' = [rstatus EXCEPT ![r] = StatusOf(o)]
    /\ UNCHANGED <<rattempts, rfirst, rquery>>
    /\ UNCHANGED notServerVars

NextServer ==
    \E r \in Requests :
        \/ RequestArrives(r)
        \/ FirstAttemptSettles(r)
        \/ RetryStarts(r)
        \/ RetrySettles(r)

(***************************************************************************)
(* Strings.  A JavaScript string is the sequence of its characters, so     *)
(* that includes(), toLowerCase(), length and the regular expressions of   *)
(* the source are computed on the text itself.                             *)
(***************************************************************************)
UpperCase == <<"A", "B", "C", "D", "E", "F", "G", "H", "I", "J", "K", "L", "M", "N", "O", "P", "Q",
    "R", "S", "T", "U", "V", "W", "X", "Y", "Z">>

LowerCase == <<"a", "b", "c", "d", "e", "f", "g", "h", "i", "j", "k", "l", "m", "n", "o", "p", "q",
    "r", "s", "t", "u", "v", "w", "x", "y", "z">>

\* the lower-case letter of each upper-case letter
LowerOf == [ ch \in Range(UpperCase) |-> LowerCase[CHOOSE n \in 1..26 : UpperCase[n] = ch] ]

\* String.prototype.toLowerCase
toLowerCase(s) ==
    [ i \in 1..Len(s) |-> IF s[i] \in DOMAIN LowerOf THEN LowerOf[s[i]] ELSE s[i] ]

\* t occurs in s at index i
occursAt(s, t, i) ==
    /\ i >= 1
    /\ i + Len(t) - 1 <= Len(s)
    /\ \A k \in 1..Len(t) : s[i + k - 1] = t[k]

\* String.prototype.includes
includes(s, t) == \E i \in 1..(Len(s) - Len(t) + 1) : occursAt(s, t, i)

\* the regular expression /t(\?|$)/: t at the end of s or right before a "?"
testEndOrQuery(s, t) ==
    \E i \in 1..(Len(s) - Len(t) + 1) :
        /\ occursAt(s, t, i)
        /\ (i + Len(t) - 1 = Len(s) \/ s[i + Len(t)] = "?")

\* the regular expression /a.*b/: a, and b somewhere after it
testThen(s, a, b) ==
    \E i \in 1..(Len(s) - Len(a) + 1) :
        /\ occursAt(s, a, i)
        /\ \E j \in (i + Len(a))..(Len(s) - Len(b) + 1) : occursAt(s, b, j)

(***************************************************************************)
(* The two extraction engines: the pooled one of api/extract.js (here the  *)
(* first module of src/unnamed/part_001) and the aggressive one of         *)
(* src/unnamed/part_002.                                                   *)
(***************************************************************************)
Engines == {"pooled", "aggressive"}

\* STREAM_PATTERNS.some(p => p.test(url)); every pattern carries the flag i
looksLikeStream(e, url) ==
    LET l == toLowerCase(url) IN
    \/ testEndOrQuery(l, <<".", "m", "3", "u", "8">>)
    \/ includes(l, <<"m", "a", "s", "t", "e", "r", ".", "m", "3", "u", "8">>)
    \/ includes(l, <<"i", "n", "d", "e", "x", ".", "m", "3", "u", "8">>)
    \/ includes(l, <<"p", "l", "a", "y", "l", "i", "s", "t", ".", "m", "3", "u", "8">>)
    \/ testThen(l, <<"m", "a", "n", "i", "f", "e", "s", "t">>, <<".", "m", "3", "u", "8">>)
    \/ testThen(l, <<"v", "i", "d", "e", "o">>, <<".", "m", "3", "u", "8">>)
    \/ testThen(l, <<"h", "l", "s">>, <<".", "m", "3", "u", "8">>)
    \/ testEndOrQuery(l, <<".", "m", "p", "d">>)
    \/ testEndOrQuery(l, <<".", "m", "p", "4">>)
    \/ /\ e = "aggressive"
       /\ \/ testThen(l, <<"c", "h", "u", "n", "k", "l", "i", "s", "t">>, <<".", "m", "3", "u",
           "8">>)
          \/ testThen(l, <<"s", "t", "r", "e", "a", "m">>, <<".", "m", "3", "u", "8">>)
          \/ testThen(l, <<"l", "i", "v", "e">>, <<".", "m", "3", "u", "8">>)
          \/ testThen(l, <<"m", "e", "d", "i", "a">>, <<".", "m", "3", "u", "8">>)
          \/ includes(l, <<"m", "a", "n", "i", "f", "e", "s", "t", ".", "m", "p", "d">>)
          \/ testEndOrQuery(l, <<".", "w", "e", "b", "m">>)
          \/ testThen(l, <<"g", "o", "o", "g", "l", "e", "v", "i", "d", "e", "o", ".", "c", "o",
              "m">>, <<"v", "i", "d", "e", "o", "p", "l", "a", "y", "b", "a", "c", "k">>)
          \/ includes(l, <<".", "t", "s", "?">>)

\* MASTER_PATTERNS.some(p => p.test(url))
isMasterPlaylist(e, url) ==
    LET l == toLowerCase(url) IN
    \/ includes(l, <<"m", "a", "s", "t", "e", "r">>)
    \/ includes(l, <<"i", "n", "d", "e", "x">>)
    \/ includes(l, <<"m", "a", "n", "i", "f", "e", "s", "t">>)
    \/ includes(l, <<"p", "l", "a", "y", "l", "i", "s", "t">>)
    \/ e = "aggressive" /\ includes(l, <<"m", "a", "i", "n">>)

\* the regular expression /segment|chunk|\.ts\?/, without the flag i
testSegment(url) ==
    \/ includes(url, <<"s", "e", "g", "m", "e", "n", "t">>)
    \/ includes(url, <<"c", "h", "u", "n", "k">>)
    \/ includes(url, <<".", "t", "s", "?">>)

\* getStreamPriority of the pooled engine
getStreamPriority_pooled(url) ==
      (IF includes(url, <<".", "m", "3", "u", "8">>) THEN 10 ELSE 0)
    + (IF includes(url, <<"m", "a", "s", "t", "e", "r">>) THEN 5 ELSE 0)
    + (IF includes(url, <<"i", "n", "d", "e", "x">>) THEN 4 ELSE 0)
    + (IF includes(url, <<"m", "a", "n", "i", "f", "e", "s", "t">>) THEN 3 ELSE 0)
    - (IF testSegment(url) THEN 5 ELSE 0)

\* getStreamPriority of the aggressive engine
getStreamPriority_aggressive(url) ==
      (IF includes(url, <<".", "m", "3", "u", "8">>) THEN 10 ELSE 0)
    + (IF includes(url, <<"m", "a", "s", "t", "e", "r">>) THEN 5 ELSE 0)
    + (IF includes(url, <<"i", "n", "d", "e", "x">>) THEN 4 ELSE 0)
    + (IF includes(url, <<"m", "a", "n", "i", "f", "e", "s", "t">>) THEN 3 ELSE 0)
    + (IF includes(url, <<"p", "l", "a", "y", "l", "i", "s", "t">>) THEN 3 ELSE 0)
    + (IF includes(url, <<".", "m", "p", "d">>) THEN 8 ELSE 0)
    + (IF includes(url, <<".", "m", "p", "4">>) THEN 2 ELSE 0)
    - (IF testSegment(url) THEN 5 ELSE 0)

getStreamPriority(e, url) ==
    IF e = "pooled" THEN getStreamPriority_pooled(url) ELSE getStreamPriority_aggressive(url)

\* BLOCKED_DOMAINS of the pooled engine
BLOCKED_DOMAINS_pooled ==
    { <<"g", "o", "o", "g", "l", "e", "s", "y", "n", "d", "i", "c", "a", "t", "i", "o", "n", ".",
        "c", "o", "m">>,
      <<"g", "o", "o", "g", "l", "e", "a", "d", "s", "e", "r", "v", "i", "c", "e", "s", ".", "c",
          "o", "m">>,
      <<"g", "o", "o", "g", "l", "e", "-", "a", "n", "a", "l", "y", "t", "i", "c", "s", ".", "c",
          "o", "m">>,
      <<"d", "o", "u", "b", "l", "e", "c", "l", "i", "c", "k", ".", "n", "e", "t">>,
      <<"f", "a", "c", "e", "b", "o", "o", "k", ".", "n", "e", "t">>,
      <<"a", "m", "a", "z", "o", "n", "-", "a", "d", "s", "y", "s", "t", "e", "m", ".", "c", "o",
          "m">>,
      <<"p", "o", "p", "a", "d", "s", ".", "n", "e", "t">>,
      <<"p", "r", "o", "p", "e", "l", "l", "e", "r", "a", "d", "s", ".", "c", "o", "m">>,
      <<"h", "o", "t", "j", "a", "r", ".", "c", "o", "m">> }

\* BLOCKED_DOMAINS of the aggressive engine
BLOCKED_DOMAINS_aggressive ==
    { <<"g", "o", "o", "g", "l", "e", "s", "y", "n", "d", "i", "c", "a", "t", "i", "o", "n", ".",
        "c", "o", "m">>,
      <<"g", "o", "o", "g", "l", "e", "a", "d", "s", "e", "r", "v", "i", "c", "e", "s", ".", "c",
          "o", "m">>,
      <<"g", "o", "o", "g", "l", "e", "-", "a", "n", "a", "l", "y", "t", "i", "c", "s", ".", "c",
          "o", "m">>,
      <<"g", "o", "o", "g", "l", "e", "t", "a", "g", "m", "a", "n", "a", "g", "e", "r", ".", "c",
          "o", "m">>,
      <<"d", "o", "u", "b", "l", "e", "c", "l", "i", "c", "k", ".", "n", "e", "t">>,
      <<"g", "o", "o", "g", "l", "e", "t", "a", "g", "s", "e", "r", "v", "i", "c", "e", "s", ".",
          "c", "o", "m">>,
      <<"p", "a", "g", "e", "a", "d", "2", ".", "g", "o", "o", "g", "l", "e", "s", "y", "n", "d",
          "i", "c", "a", "t", "i", "o", "n", ".", "c", "o", "m">>,
      <<"a", "d", "s", "e", "r", "v", "i", "c", "e", ".", "g", "o", "o", "g", "l", "e", ".", "c",
          "o", "m">>,
      <<"f", "a", "c", "e", "b", "o", "o", "k", ".", "n", "e", "t">>,
      <<"f", "a", "c", "e", "b", "o", "o", "k", ".", "c", "o", "m">>,
      <<"f", "b", "c", "d", "n", ".", "n", "e", "t">>,
      <<"c", "o", "n", "n", "e", "c", "t", ".", "f", "a", "c", "e", "b", "o", "o", "k", ".", "n",
          "e", "t">>,
      <<"a", "m", "a", "z", "o", "n", "-", "a", "d", "s", "y", "s", "t", "e", "m", ".", "c", "o",
          "m">>,
      <<"a", "d", "n", "x", "s", ".", "c", "o", "m">>,
      <<"a", "d", "s", "r", "v", "r", ".", "o", "r", "g">>,
      <<"a", "d", "v", "e", "r", "t", "i", "s", "i", "n", "g", ".", "c", "o", "m">>,
      <<"t", "a", "b", "o", "o", "l", "a", ".", "c", "o", "m">>,
      <<"o", "u", "t", "b", "r", "a", "i", "n", ".", "c", "o", "m">>,
      <<"c", "r", "i", "t", "e", "o", ".", "c", "o", "m">>,
      <<"p", "u", "b", "m", "a", "t", "i", "c", ".", "c", "o", "m">>,
      <<"r", "u", "b", "i", "c", "o", "n", "p", "r", "o", "j", "e", "c", "t", ".", "c", "o", "m">>,
      <<"o", "p", "e", "n", "x", ".", "n", "e", "t">>,
      <<"c", "a", "s", "a", "l", "e", "m", "e", "d", "i", "a", ".", "c", "o", "m">>,
      <<"p", "o", "p", "a", "d", "s", ".", "n", "e", "t">>,
      <<"p", "o", "p", "c", "a", "s", "h", ".", "n", "e", "t">>,
      <<"p", "r", "o", "p", "e", "l", "l", "e", "r", "a", "d", "s", ".", "c", "o", "m">>,
      <<"e", "x", "o", "c", "l", "i", "c", "k", ".", "c", "o", "m">>,
      <<"j", "u", "i", "c", "y", "a", "d", "s", ".", "c", "o", "m">>,
      <<"t", "r", "a", "f", "f", "i", "c", "j", "u", "n", "k", "y", ".", "c", "o", "m">>,
      <<"a", "d", "s", "t", "e", "r", "r", "a", ".", "c", "o", "m">>,
      <<"b", "i", "d", "v", "e", "r", "t", "i", "s", "e", "r", ".", "c", "o", "m">>,
      <<"m", "g", "i", "d", ".", "c", "o", "m">>,
      <<"r", "e", "v", "c", "o", "n", "t", "e", "n", "t", ".", "c", "o", "m">>,
      <<"z", "e", "r", "g", "n", "e", "t", ".", "c", "o", "m">>,
      <<"c", "o", "n", "t", "e", "n", "t", ".", "a", "d">>,
      <<"h", "o", "t", "j", "a", "r", ".", "c", "o", "m">>,
      <<"m", "i", "x", "p", "a", "n", "e", "l", ".", "c", "o", "m">>,
      <<"s", "e", "g", "m", "e", "n", "t", ".", "i", "o">>,
      <<"a", "m", "p", "l", "i", "t", "u", "d", "e", ".", "c", "o", "m">>,
      <<"f", "u", "l", "l", "s", "t", "o", "r", "y", ".", "c", "o", "m">>,
      <<"c", "r", "a", "z", "y", "e", "g", "g", ".", "c", "o", "m">>,
      <<"i", "n", "s", "p", "e", "c", "t", "l", "e", "t", ".", "c", "o", "m">>,
      <<"m", "o", "u", "s", "e", "f", "l", "o", "w", ".", "c", "o", "m">>,
      <<"q", "u", "a", "n", "t", "s", "e", "r", "v", "e", ".", "c", "o", "m">>,
      <<"s", "c", "o", "r", "e", "c", "a", "r", "d", "r", "e", "s", "e", "a", "r", "c", "h", ".",
          "c", "o", "m">>,
      <<"c", "h", "a", "r", "t", "b", "e", "a", "t", ".", "c", "o", "m">>,
      <<"t", "w", "i", "t", "t", "e", "r", ".", "c", "o", "m">>,
      <<"p", "l", "a", "t", "f", "o", "r", "m", ".", "t", "w", "i", "t", "t", "e", "r", ".", "c",
          "o", "m">>,
      <<"s", "y", "n", "d", "i", "c", "a", "t", "i", "o", "n", ".", "t", "w", "i", "t", "t", "e",
          "r", ".", "c", "o", "m">>,
      <<"l", "i", "n", "k", "e", "d", "i", "n", ".", "c", "o", "m">>,
      <<"p", "i", "n", "t", "e", "r", "e", "s", "t", ".", "c", "o", "m">>,
      <<"r", "e", "d", "d", "i", "t", ".", "c", "o", "m">>,
      <<"p", "u", "s", "h", ".", "n", "o", "t", "i", "f", "i", "c", "a", "t", "i", "o", "n">>,
      <<"o", "n", "e", "s", "i", "g", "n", "a", "l", ".", "c", "o", "m">>,
      <<"p", "u", "s", "h", "n", "a", "m", "i", ".", "c", "o", "m">>,
      <<"s", "u", "b", "s", "c", "r", "i", "b", "e", "r", "s", ".", "c", "o", "m">> }

\* BLOCKED_DOMAINS.some(d => url.includes(d))
isBlocked(e, url) ==
    \E d \in (IF e = "pooled" THEN BLOCKED_DOMAINS_pooled ELSE BLOCKED_DOMAINS_aggressive) :
        includes(url, d)

BLOCKED_RESOURCES == {"image", "stylesheet", "font", "imageset"}

(***************************************************************************)
(* Subtitles (pooled engine only).                                         *)
(***************************************************************************)
\* SUBTITLE_PATTERNS.some(p => p.test(url)); every pattern carries the flag i
looksLikeSubtitle(url) ==
    LET l == toLowerCase(url) IN
    \/ testEndOrQuery(l, <<".", "v", "t", "t">>)
    \/ testEndOrQuery(l, <<".", "s", "r", "t">>)
    \/ testEndOrQuery(l, <<".", "a", "s", "s">>)
    \/ testEndOrQuery(l, <<".", "s", "s", "a">>)
    \/ testThen(l, <<"s", "u", "b", "t", "i", "t", "l", "e">>, <<".", "v", "t", "t">>)
    \/ testThen(l, <<"c", "a", "p", "t", "i", "o", "n">>, <<".", "v", "t", "t">>)
    \/ includes(l, <<"/", "v", "t", "t", "/">>)
    \/ includes(l, <<"/", "s", "u", "b", "t", "i", "t", "l", "e", "s", "/">>)
    \/ includes(l, <<"/", "c", "a", "p", "t", "i", "o", "n", "s", "/">>)

\* the regular expression /\.(vtt|srt|ass|ssa)(\?|$)/i
testSubtitleExtension(url) ==
    LET l == toLowerCase(url) IN
    \/ testEndOrQuery(l, <<".", "v", "t", "t">>)
    \/ testEndOrQuery(l, <<".", "s", "r", "t">>)
    \/ testEndOrQuery(l, <<".", "a", "s", "s">>)
    \/ testEndOrQuery(l, <<".", "s", "s", "a">>)

\* a faulty variant of looksLikeTracker: no url is taken for a tracker
looksLikeTracker_none(urlLower) == FALSE

\* the substrings isValidSubtitle takes for the mark of an ad or a tracker
looksLikeTracker(urlLower) ==
    \/ includes(urlLower, <<"a", "n", "a", "l", "y", "t", "i", "c", "s">>)
    \/ includes(urlLower, <<"t", "r", "a", "c", "k", "i", "n", "g">>)
    \/ includes(urlLower, <<"p", "i", "x", "e", "l">>)
    \/ includes(urlLower, <<"b", "e", "a", "c", "o", "n">>)

isValidSubtitle(url) ==
    LET urlLower == toLowerCase(url) IN
    IF ~testSubtitleExtension(url) THEN FALSE
    ELSE IF looksLikeTracker(urlLower) THEN FALSE
    ELSE IF Len(url) < 20 THEN FALSE
    ELSE TRUE

\* Object.entries(SUBTITLE_LANGUAGE_MAP), in insertion order
SUBTITLE_LANGUAGE_MAP ==
    << <<<<"e", "n">>, "English">>,
       <<<<"e", "n", "g">>, "English">>,
       <<<<"e", "n", "g", "l", "i", "s", "h">>, "English">>,
       <<<<"b", "n">>, "Bengali">>,
       <<<<"b", "a", "n", "g", "l", "a">>, "Bengali">>,
       <<<<"b", "e", "n", "g", "a", "l", "i">>, "Bengali">>,
       <<<<"h", "i">>, "Hindi">>,
       <<<<"h", "i", "n", "d", "i">>, "Hindi">>,
       <<<<"a", "r">>, "Arabic">>,
       <<<<"a", "r", "a", "b", "i", "c">>, "Arabic">>,
       <<<<"e", "s">>, "Spanish">>,
       <<<<"s", "p", "a", "n", "i", "s", "h">>, "Spanish">>,
       <<<<"f", "r">>, "French">>,
       <<<<"f", "r", "e", "n", "c", "h">>, "French">>,
       <<<<"d", "e">>, "German">>,
       <<<<"g", "e", "r", "m", "a", "n">>, "German">>,
       <<<<"z", "h">>, "Chinese">>,
       <<<<"c", "h", "i", "n", "e", "s", "e">>, "Chinese">>,
       <<<<"j", "a">>, "Japanese">>,
       <<<<"j", "a", "p", "a", "n", "e", "s", "e">>, "Japanese">>,
       <<<<"k", "o">>, "Korean">>,
       <<<<"k", "o", "r", "e", "a", "n">>, "Korean">>,
       <<<<"p", "t">>, "Portuguese">>,
       <<<<"p", "o", "r", "t", "u", "g", "u", "e", "s", "e">>, "Portuguese">>,
       <<<<"r", "u">>, "Russian">>,
       <<<<"r", "u", "s", "s", "i", "a", "n">>, "Russian">>,
       <<<<"i", "t">>, "Italian">>,
       <<<<"i", "t", "a", "l", "i", "a", "n">>, "Italian">>,
       <<<<"t", "r">>, "Turkish">>,
       <<<<"t", "u", "r", "k", "i", "s", "h">>, "Turkish">> >>

\* a faulty variant of codeOccurs: only the path shapes are looked for
codeOccurs_pathOnly(urlLower, code) ==
    \/ includes(urlLower, <<"/">> \o code \o <<"/">>)
    \/ includes(urlLower, <<"/">> \o code \o <<".">>)

\* the condition of the loop body of extractLanguageFromUrl, for one code
codeOccurs(urlLower, code) ==
    \/ includes(urlLower, <<"/">> \o code \o <<"/">>)
    \/ includes(urlLower, <<"/">> \o code \o <<".">>)
    \/ includes(urlLower, <<"_">> \o code \o <<".">>)
    \/ includes(urlLower, <<"-">> \o code \o <<".">>)
    \/ includes(urlLower, <<"=">> \o code \o <<"&">>)
    \/ includes(urlLower, <<"l", "a", "n", "g", "=">> \o code)
    \/ includes(urlLower, <<"l", "a", "n", "g", "u", "a", "g", "e", "=">> \o code)

\* the for loop of extractLanguageFromUrl, from entry n on
RECURSIVE languageFrom(_, _)
languageFrom(urlLower, n) ==
    IF n > Len(SUBTITLE_LANGUAGE_MAP) THEN "Unknown"
    ELSE IF codeOccurs(urlLower, SUBTITLE_LANGUAGE_MAP[n][1]) THEN SUBTITLE_LANGUAGE_MAP[n][2]
    ELSE languageFrom(urlLower, n + 1)

extractLanguageFromUrl(url) == languageFrom(toLowerCase(url), 1)

(***************************************************************************)
(* The scan of a response body or a console message:                       *)
(* text.match(/https?:\/\/[^\s"'<>]+\.m3u8[^\s"'<>]*/gi) || []             *)
(***************************************************************************)
\* the characters of the class [\s"'<>]
Delimiters == {" ", "\t", "\n", "\r", "\f", "\"", "'", "<", ">"}

\* a faulty variant of runEnd: the run of a match also ends at a "?"
RECURSIVE runEnd_atQuery(_, _)
runEnd_atQuery(text, i) ==
    IF i > Len(text) \/ text[i] \in Delimiters \cup {"?"} THEN i - 1
    ELSE runEnd_atQuery(text, i + 1)

\* the end of the run of characters outside the class that starts at index i
\* (i - 1 when the run is empty)
RECURSIVE runEnd(_, _)
runEnd(text, i) ==
    IF i > Len(text) \/ text[i] \in Delimiters THEN i - 1 ELSE runEnd(text, i + 1)

\* the matches found from index i on: a match starts at the leftmost http:// or
\* https:// whose run holds .m3u8 after at least one character, and takes the
\* whole run
RECURSIVE matchesFrom(_, _, _)
matchesFrom(text, l, i) ==
    IF i > Len(text) THEN << >>
    ELSE LET p == IF occursAt(l, <<"h", "t", "t", "p", "s", ":", "/", "/">>, i) THEN 8
                  ELSE IF occursAt(l, <<"h", "t", "t", "p", ":", "/", "/">>, i) THEN 7 ELSE 0
             e == runEnd(text, i + p)
         IN  IF p > 0 /\ \E j \in (i + p + 1)..(e - 4) : occursAt(l, <<".", "m", "3", "u", "8">>, j)
             THEN <<SubSeq(text, i, e)>> \o matchesFrom(text, l, e + 1)
             ELSE matchesFrom(text, l, i + 1)

matchStreamUrls(text) == matchesFrom(text, toLowerCase(text), 1)

(***************************************************************************)
(* One run of an extraction engine, from the registration of the page's    *)
(* handlers to the result: what the handlers capture and how the result is *)
(* computed from it.                                                       *)
(***************************************************************************)
\* CONFIG.MAX_CLICK_ATTEMPTS of the pooled engine
MAX_CLICK_ATTEMPTS_pooled == 6

\* CONFIG.MAX_CLICK_ATTEMPTS of the aggressive engine
MAX_CLICK_ATTEMPTS_aggressive == 8

MAX_CLICK_ATTEMPTS(e) ==
    IF e = "pooled" THEN MAX_CLICK_ATTEMPTS_pooled ELSE MAX_CLICK_ATTEMPTS_aggressive

\* CONFIG.STREAM_DETECTION_WINDOW of the pooled engine and CONFIG.STREAM_WAIT_TIME
\* of the aggressive one, in ms
STREAM_DETECTION_WINDOW == 10000

STREAM_WAIT_TIME == 20000

\* the waits of one iteration of the click loop, in ms: the pooled engine waits
\* 300 ms after its fallback click (400 ms after a click on an element) and
\* CONFIG.CLICK_DELAY after a counted attempt, and 500 ms after an iteration
\* that threw; the aggressive engine waits CONFIG.CLICK_RETRY_INTERVAL
AfterClickWait == 300

CLICK_DELAY == 800

ClickErrorWait == 500

CLICK_RETRY_INTERVAL == 2000

\* ---- the inputs of the run
\* the page the extraction is asked for, the user agent picked for it, and
\* new URL(targetUrl).origin
targetUrl == <<"h", "t", "t", "p", "s", ":", "/", "/", "e", "x", "a", "m", "p", "l", "e", ".", "c",
    "o", "m", "/", "v", "i", "d", "e", "o">>

userAgent == "userAgent"

origin == <<"h", "t", "t", "p", "s", ":", "/", "/", "e", "x", "a", "m", "p", "l", "e", ".", "c", "o",
    "m">>

\* the urls the page requests: manifests, a segment, a DASH manifest, an ad, a
\* script, and subtitle files
RequestUrls ==
    { <<"h", "t", "t", "p", "s", ":", "/", "/", "c", "d", "n", ".", "x", ".", "c", "o", "m", "/",
        "a", "/", "m", "a", "s", "t", "e", "r", ".", "m", "3", "u", "8", "?", "t", "=", "1">>,
      <<"h", "t", "t", "p", "s", ":", "/", "/", "c", "d", "n", ".", "x", ".", "c", "o", "m", "/",
          "v", "/", "7", "2", "0", "p", ".", "m", "3", "u", "8">>,
      <<"h", "t", "t", "p", "s", ":", "/", "/", "c", "d", "n", ".", "x", ".", "c", "o", "m", "/",
          "v", "/", "4", "8", "0", "p", ".", "m", "3", "u", "8">>,
      <<"h", "t", "t", "p", "s", ":", "/", "/", "c", "d", "n", ".", "x", ".", "c", "o", "m", "/",
          "h", "l", "s", "/", "m", "a", "s", "t", "e", "r", ".", "m", "3", "u", "8", "/", "i", "n",
          "d", "e", "x", "/", "s", "e", "g", "m", "e", "n", "t", "1", ".", "t", "s", "?", "x", "=",
          "1">>,
      <<"h", "t", "t", "p", "s", ":", "/", "/", "c", "d", "n", ".", "x", ".", "c", "o", "m", "/",
          "d", "/", "m", "a", "n", "i", "f", "e", "s", "t", ".", "m", "p", "d">>,
      <<"h", "t", "t", "p", "s", ":", "/", "/", "d", "o", "u", "b", "l", "e", "c", "l", "i", "c",
          "k", ".", "n", "e", "t", "/", "a", "d", "/", "m", "a", "s", "t", "e", "r", ".", "m", "3",
          "u", "8">>,
      <<"h", "t", "t", "p", "s", ":", "/", "/", "c", "d", "n", ".", "x", ".", "c", "o", "m", "/",
          "a", "p", "p", ".", "j", "s">>,
      <<"h", "t", "t", "p", "s", ":", "/", "/", "c", "d", "n", ".", "x", ".", "c", "o", "m", "/",
          "s", "u", "b", "s", "/", "e", "n", ".", "v", "t", "t">>,
      <<"h", "t", "t", "p", "s", ":", "/", "/", "c", "d", "n", ".", "x", ".", "c", "o", "m", "/",
          "t", "r", "a", "c", "k", "i", "n", "g", "/", "p", "i", "x", "e", "l", ".", "v", "t",
          "t">>,
      <<"h", "t", "t", "p", "s", ":", "/", "/", "c", "d", "n", ".", "x", ".", "c", "o", "m", "/",
          "s", "u", "b", "s", "/", "m", "o", "v", "i", "e", "_", "F", "R", ".", "S", "R", "T", "?",
          "l", "a", "n", "g", "=", "e", "s">>,
      <<"h", "t", "t", "p", "s", ":", "/", "/", "c", "d", "n", ".", "x", ".", "c", "o", "m", "/",
          "s", "u", "b", "s", "/", "t", "r", "a", "c", "k", "1", ".", "v", "t", "t">>,
      <<"h", "t", "t", "p", ":", "/", "/", "a", ".", "i", "o", "/", "f", "r", ".", "v", "t", "t">> }

\* the referer header of a request: absent, or the embedding player
NoReferer == << >>

Referers == { NoReferer, <<"h", "t", "t", "p", "s", ":", "/", "/", "p", "l", "a", "y", "e", "r", ".",
    "x", ".", "c", "o", "m", "/", "e", "m", "b", "e", "d">> }

\* the requests of the page: each url as an XHR without a referer, one of them
\* also from the embedding player, and a poster image
PageRequests ==
    { [url |-> url, resourceType |-> "xhr", referer |-> NoReferer] : url \in RequestUrls }
        \cup { [ url |-> <<"h", "t", "t", "p", "s", ":", "/", "/", "c", "d", "n", ".", "x", ".", "c",
            "o", "m", "/", "v", "/", "4", "8", "0", "p", ".", "m", "3", "u", "8">>,
                 resourceType |-> "xhr", referer |-> <<"h", "t", "t", "p", "s", ":", "/", "/", "p",
                     "l", "a", "y", "e", "r", ".", "x", ".", "c", "o", "m", "/", "e", "m", "b", "e",
                     "d">> ] }
        \cup { [ url |-> <<"h", "t", "t", "p", "s", ":", "/", "/", "c", "d", "n", ".", "x", ".", "c",
            "o", "m", "/", "p", "o", "s", "t", "e", "r", "/", "m", "a", "s", "t", "e", "r", ".", "m",
            "3", "u", "8", ".", "j", "p", "g", "?", "i", "n", "d", "e", "x">>,
                 resourceType |-> "image", referer |-> NoReferer ] }

\* the responses the page receives: their url, their content type, and what
\* response.text().catch(() => '') gives for them (the body, or '' when it
\* cannot be read)
Responses ==
    { [ url |-> <<"h", "t", "t", "p", "s", ":", "/", "/", "a", "p", "i", ".", "x", ".", "c", "o",
        "m", "/", "s", "o", "u", "r", "c", "e", ".", "j", "s", "o", "n">>,
        contentType |-> <<"a", "p", "p", "l", "i", "c", "a", "t", "i", "o", "n", "/", "j", "s", "o",
            "n">>,
        text |-> <<"{", "\"", "u", "r", "l", "\"", ":", "\"", "h", "t", "t", "p", "s", ":", "/", "/",
            "c", "d", "n", ".", "x", ".", "c", "o", "m", "/", "a", "/", "m", "a", "s", "t", "e", "r",
            ".", "m", "3", "u", "8", "?", "t", "=", "1", "\"", ",", "\"", "n", "\"", ":", "1",
            "}">> ],
      [ url |-> <<"h", "t", "t", "p", "s", ":", "/", "/", "a", "p", "i", ".", "x", ".", "c", "o",
          "m", "/", "s", "o", "u", "r", "c", "e", "s">>,
        contentType |-> <<"a", "p", "p", "l", "i", "c", "a", "t", "i", "o", "n", "/", "j", "s", "o",
            "n", ";", " ", "c", "h", "a", "r", "s", "e", "t", "=", "u", "t", "f", "-", "8">>,
        text |-> <<"{", "\"", "s", "\"", ":", "[", "\"", "h", "t", "t", "p", "s", ":", "/", "/", "c",
            "d", "n", ".", "x", ".", "c", "o", "m", "/", "v", "/", "4", "8", "0", "p", ".", "m", "3",
            "u", "8", "\"", ",", "\"", "h", "t", "t", "p", "s", ":", "/", "/", "c", "d", "n", ".",
            "x", ".", "c", "o", "m", "/", "v", "/", "7", "2", "0", "p", ".", "m", "3", "u", "8",
            "\"", "]", "}">> ],
      [ url |-> <<"h", "t", "t", "p", "s", ":", "/", "/", "e", "x", "a", "m", "p", "l", "e", ".",
          "c", "o", "m", "/", "e", "m", "b", "e", "d", ".", "h", "t", "m", "l">>,
        contentType |-> <<"t", "e", "x", "t", "/", "h", "t", "m", "l">>,
        text |-> <<"<", "v", "i", "d", "e", "o", " ", "s", "r", "c", "=", "'", "h", "t", "t", "p",
            "s", ":", "/", "/", "c", "d", "n", ".", "x", ".", "c", "o", "m", "/", "v", "/", "7", "2",
            "0", "p", ".", "m", "3", "u", "8", "'", ">">> ],
      [ url |-> <<"h", "t", "t", "p", "s", ":", "/", "/", "e", "x", "a", "m", "p", "l", "e", ".",
          "c", "o", "m", "/", "p", "l", "a", "y", "e", "r", ".", "j", "s">>,
        contentType |-> <<"a", "p", "p", "l", "i", "c", "a", "t", "i", "o", "n", "/", "j", "a", "v",
            "a", "s", "c", "r", "i", "p", "t">>,
        text |-> <<"l", "o", "a", "d", "(", "\"", "H", "T", "T", "P", "S", ":", "/", "/", "c", "d",
            "n", ".", "x", ".", "c", "o", "m", "/", "V", "/", "M", "A", "S", "T", "E", "R", ".", "M",
            "3", "U", "8", "\"", ")">> ],
      [ url |-> <<"h", "t", "t", "p", "s", ":", "/", "/", "a", "p", "i", ".", "x", ".", "c", "o",
          "m", "/", "a", "d", "s", ".", "j", "s", "o", "n">>,
        contentType |-> <<"a", "p", "p", "l", "i", "c", "a", "t", "i", "o", "n", "/", "j", "s", "o",
            "n">>,
        text |-> <<"{", "\"", "a", "d", "\"", ":", "\"", "h", "t", "t", "p", "s", ":", "/", "/", "d",
            "o", "u", "b", "l", "e", "c", "l", "i", "c", "k", ".", "n", "e", "t", "/", "a", "d", "/",
            "m", "a", "s", "t", "e", "r", ".", "m", "3", "u", "8", "\"", "}">> ],
      [ url |-> <<"h", "t", "t", "p", "s", ":", "/", "/", "a", "p", "i", ".", "x", ".", "c", "o",
          "m", "/", "g", "o", "n", "e", ".", "j", "s", "o", "n">>,
        contentType |-> <<"a", "p", "p", "l", "i", "c", "a", "t", "i", "o", "n", "/", "j", "s", "o",
            "n">>,
        text |-> << >> ],
      [ url |-> <<"h", "t", "t", "p", "s", ":", "/", "/", "c", "d", "n", ".", "x", ".", "c", "o",
          "m", "/", "v", "/", "4", "8", "0", "p", ".", "m", "3", "u", "8">>,
        contentType |-> <<"a", "p", "p", "l", "i", "c", "a", "t", "i", "o", "n", "/", "v", "n", "d",
            ".", "a", "p", "p", "l", "e", ".", "m", "p", "e", "g", "u", "r", "l">>,
        text |-> <<"#", "E", "X", "T", "M", "3", "U", " ", "s", "e", "g", "1", ".", "t", "s">> ] }

\* the messages the page writes to its console
ConsoleTexts == { <<"h", "l", "s", ":", " ", "l", "o", "a", "d", "i", "n", "g", " ", "h", "t", "t",
    "p", "s", ":", "/", "/", "c", "d", "n", ".", "x", ".", "c", "o", "m", "/", "v", "/", "4", "8",
    "0", "p", ".", "m", "3", "u", "8", " ", "n", "o", "w">> }

\* every url the handlers can meet in this run
KnownUrls ==
    { q.url : q \in PageRequests } \cup { r.url : r \in Responses }
        \cup UNION { Range(matchStreamUrls(r.text)) : r \in Responses }
        \cup UNION { Range(matchStreamUrls(text)) : text \in ConsoleTexts }

\* what the functions above give for the urls of this run, computed once
UrlFacts ==
    [ e \in Engines |->
        [ url \in KnownUrls |->
            [ isBlocked |-> isBlocked(e, url),
              looksLikeStream |-> looksLikeStream(e, url),
              isMasterPlaylist |-> isMasterPlaylist(e, url),
              getStreamPriority |-> getStreamPriority(e, url),
              isSubtitle |-> looksLikeSubtitle(url) /\ isValidSubtitle(url),
              language |-> extractLanguageFromUrl(url) ] ] ]

\* what the scan gives for the texts of this run, computed once
TextMatches ==
    [ text \in { r.text : r \in Responses } \cup ConsoleTexts |->
        matchStreamUrls(text) ]

\* ---- Map, in insertion order: a sequence of values, keyed by their url
MapHas(m, k) == \E i \in 1..Len(m) : m[i].url = k

\* a faulty variant of MapPut: a key that is set again moves to the end
MapPut_moveToEnd(m, v) ==
    Append(SelectSeq(m, LAMBDA w : w.url # v.url), v)

\* Map.prototype.set: a new key goes to the end, an old key keeps its place
MapPut(m, v) ==
    IF MapHas(m, v.url)
    THEN [ i \in 1..Len(m) |-> IF m[i].url = v.url THEN v ELSE m[i] ]
    ELSE Append(m, v)

\* the headers recorded with a candidate
Headers(referer) == [Referer |-> referer, UserAgent |-> userAgent, Origin |-> origin]

\* headers['referer'] || targetUrl
RefererOr(referer) == IF referer = NoReferer THEN targetUrl ELSE referer

\* the streamData of a candidate; the aggressive engine also records the channel
StreamData(e, url, referer, source) ==
    IF e = "pooled"
    THEN [url |-> url, headers |-> Headers(referer),
        priority |-> UrlFacts[e][url].getStreamPriority]
    ELSE [url |-> url, headers |-> Headers(referer),
        priority |-> UrlFacts[e][url].getStreamPriority,
          source |-> source]

\* if (!capturedStreams.has(match)) capturedStreams.set(match, ...), for every
\* match of a scanned text, from match n on
RECURSIVE AddMatches(_, _, _, _, _, _)
AddMatches(e, m, matches, n, referer, source) ==
    IF n > Len(matches) THEN m
    ELSE AddMatches(e,
                    IF MapHas(m, matches[n]) THEN m
                    ELSE MapPut(m, StreamData(e, matches[n], referer, source)),
                    matches, n + 1, referer, source)

\* a faulty variant of InsertByPriority: the candidates stay in capture order
InsertByPriority_append(sorted, x) == Append(sorted, x)

\* ---- Array.prototype.sort((a, b) => b.priority - a.priority), which is
\* stable: an element goes behind those of a higher or equal priority
InsertByPriority(sorted, x) ==
    LET k == Cardinality({ i \in 1..Len(sorted) : sorted[i].priority >= x.priority })
    IN  SubSeq(sorted, 1, k) \o <<x>> \o SubSeq(sorted, k + 1, Len(sorted))

RECURSIVE SortFrom(_, _, _)
SortFrom(s, n, sorted) ==
    IF n > Len(s) THEN sorted ELSE SortFrom(s, n + 1, InsertByPriority(sorted, s[n]))

SortByPriority(s) == SortFrom(s, 1, << >>)

\* the run of an engine of E starts: the handlers are registered
InitCapture(E) ==
    /\ engine \in E
    /\ epc = "clicking"
    /\ capturedStreams = << >>
    /\ capturedSubtitles = << >>
    /\ bestStream = null
    /\ foundMasterPlaylist = FALSE
    /\ clickAttempts = 0
    /\ iterations = 0
    /\ handled = <<0, 0>>
    /\ eresult = NoResult

\* the page is open and its handlers run: from their registration until the
\* finally block has closed the page (pooled engine) or the browser (aggressive
\* engine).  The result is computed and the finally block entered without an
\* await in between, so that no handler runs between the two.
PageLive == epc \in {"clicking", "finalWait", "cleanup"}

\* the handlers may add this many entries
Room == MaxCaptured - (Len(capturedStreams) + Len(capturedSubtitles))

\* a faulty variant of Resolution: the return after request.abort() is missing
Resolution_fallsThrough(blocked) == IF blocked THEN <<1, 1>> ELSE <<0, 1>>

\* how often the request handler calls request.abort() and request.continue()
\* on the request it is given: abort() and return for a blocked request,
\* continue() at its end for any other
Resolution(blocked) == IF blocked THEN <<1, 0>> ELSE <<0, 1>>

\* page.on('request'): a blocked request is aborted; a stream url is recorded
\* (again, if it was recorded before), and so is a valid subtitle url
RequestSeen(request) ==
    /\ PageLive
    /\ LET url == request.url
           facts == UrlFacts[engine][url]
           blocked == request.resourceType \in BLOCKED_RESOURCES \/ facts.isBlocked
           stream == ~blocked /\ facts.looksLikeStream
           subtitle == ~blocked /\ engine = "pooled" /\ facts.isSubtitle
           streamData == StreamData(engine, url, RefererOr(request.referer), "request")
           subtitleData == [url |-> url, language |-> facts.language]
       IN  /\ (IF stream /\ ~MapHas(capturedStreams, url) THEN 1 ELSE 0)
                + (IF subtitle /\ ~MapHas(capturedSubtitles, url) THEN 1 ELSE 0) <= Room
           /\ capturedStreams' =
                 IF stream THEN MapPut(capturedStreams, streamData) ELSE capturedStreams
           /\ bestStream' =
                 IF stream /\ (bestStream = null \/ streamData.priority > bestStream.priority)
                 THEN streamData ELSE bestStream
           /\ capturedSubtitles' =
                 IF subtitle THEN MapPut(capturedSubtitles, subtitleData)
                 ELSE capturedSubtitles
           /\ handled' = Resolution(blocked)
    /\ UNCHANGED <<engine, epc, foundMasterPlaylist, clickAttempts, iterations, eresult>>
    /\ UNCHANGED notCaptureVars

\* the content types whose bodies an engine scans
ScansBody(e, contentType) ==
    IF e = "pooled"
    THEN includes(contentType, <<"j", "s", "o", "n">>) \/ includes(contentType, <<"j", "a", "v", "a",
        "s", "c", "r", "i", "p", "t">>)
    ELSE includes(contentType, <<"j", "s", "o", "n">>) \/ includes(contentType, <<"t", "e", "x",
        "t">>)

\* page.on('response'), up to await response.text(): the aggressive engine
\* records the response's own url if it looks like a stream (the pooled engine
\* does nothing yet)
ResponseSeen(response, referer) ==
    /\ PageLive
    /\ LET stream == engine = "aggressive" /\ UrlFacts[engine][response.url].looksLikeStream
       IN  /\ (IF stream /\ ~MapHas(capturedStreams, response.url) THEN 1 ELSE 0) <= Room
           /\ capturedStreams' =
                 IF stream
                 THEN MapPut(capturedStreams,
                             StreamData(engine, response.url, RefererOr(referer), "response"))
                 ELSE capturedStreams
    /\ UNCHANGED <<engine, epc, capturedSubtitles, bestStream, foundMasterPlaylist,
                   clickAttempts, iterations, handled, eresult>>
    /\ UNCHANGED notCaptureVars

\* the response.text() of a response seen earlier settles, its content type
\* being one the engine scans: every match that is not yet a key of
\* capturedStreams is recorded.  (By then the aggressive engine has recorded the
\* response's own url, if that looks like a stream.)
BodyScanned(response) ==
    /\ PageLive
    /\ ScansBody(engine, response.contentType)
    /\ (engine = "aggressive" /\ UrlFacts[engine][response.url].looksLikeStream)
          => MapHas(capturedStreams, response.url)
    /\ LET scanned == AddMatches(engine, capturedStreams, TextMatches[response.text], 1,
                                 response.url, "body-parse")
       IN  /\ Len(scanned) - Len(capturedStreams) <= Room
           /\ capturedStreams' = scanned
    /\ UNCHANGED <<engine, epc, capturedSubtitles, bestStream, foundMasterPlaylist,
                   clickAttempts, iterations, handled, eresult>>
    /\ UNCHANGED notCaptureVars

\* page.on('console'), aggressive engine only
ConsoleSeen(text) ==
    /\ PageLive
    /\ engine = "aggressive"
    /\ LET scanned == AddMatches(engine, capturedStreams, TextMatches[text], 1,
                                 targetUrl, "console")
       IN  /\ Len(scanned) - Len(capturedStreams) <= Room
           /\ capturedStreams' = scanned
    /\ UNCHANGED <<engine, epc, capturedSubtitles, bestStream, foundMasterPlaylist,
                   clickAttempts, iterations, handled, eresult>>
    /\ UNCHANGED notCaptureVars

\* streams.find(s => isMasterPlaylist(s.url)): index of the first one, 0 if none
FirstMaster(e, m) ==
    IF \E i \in 1..Len(m) : UrlFacts[e][m[i].url].isMasterPlaylist
    THEN CHOOSE i \in 1..Len(m) :
            /\ UrlFacts[e][m[i].url].isMasterPlaylist
            /\ \A j \in 1..(i - 1) : ~UrlFacts[e][m[j].url].isMasterPlaylist
    ELSE 0

\* the least time the iterations made so far have taken, in ms: the waits of
\* the counted attempts and of those that threw
LeastElapsed ==
    IF engine = "pooled"
    THEN clickAttempts * (AfterClickWait + CLICK_DELAY)
            + (iterations - clickAttempts) * ClickErrorWait
    ELSE clickAttempts * CLICK_RETRY_INTERVAL

\* the condition of the while loop can hold: attempts are left and so may be
\* time (foundMasterPlaylist is only set together with a break)
LoopGoesOn ==
    /\ clickAttempts < MAX_CLICK_ATTEMPTS(engine)
    /\ LeastElapsed < (IF engine = "pooled" THEN STREAM_DETECTION_WINDOW ELSE STREAM_WAIT_TIME)

\* one iteration of the click loop that runs to its end (a selector probe that
\* throws is caught inside the iteration, which goes on).  The check that ends
\* it: the pooled engine leaves the loop when a captured url looks like a
\* master playlist, the aggressive one when bestStream does; otherwise the
\* attempt is counted
ClickAttemptEnds ==
    /\ epc = "clicking"
    /\ LoopGoesOn
    /\ iterations' = iterations + 1
    /\ IF engine = "pooled"
       THEN LET i == FirstMaster(engine, capturedStreams)
            IN  IF i > 0
                THEN /\ foundMasterPlaylist' = TRUE
                     /\ bestStream' = capturedStreams[i]
                     /\ epc' = "finalWait"
                     /\ UNCHANGED clickAttempts
                ELSE /\ clickAttempts' = clickAttempts + 1
                     /\ UNCHANGED <<foundMasterPlaylist, bestStream, epc>>
       ELSE IF bestStream # null /\ UrlFacts[engine][bestStream.url].isMasterPlaylist
            THEN /\ epc' = "finalWait"
                 /\ UNCHANGED <<foundMasterPlaylist, bestStream, clickAttempts>>
            ELSE /\ clickAttempts' = clickAttempts + 1
                 /\ UNCHANGED <<foundMasterPlaylist, bestStream, epc>>
    /\ UNCHANGED <<engine, capturedStreams, capturedSubtitles, handled, eresult>>
    /\ UNCHANGED notCaptureVars

\* one iteration of the click loop of the pooled engine in which the fallback
\* page.mouse.click() throws, which no probe's try encloses: the catch of the
\* iteration logs the error and waits 500 ms; attempts++ is skipped
ClickAttemptThrows ==
    /\ epc = "clicking"
    /\ engine = "pooled"
    /\ LoopGoesOn
    /\ iterations - clickAttempts < MaxClickErrors
    /\ iterations' = iterations + 1
    /\ UNCHANGED <<engine, epc, capturedStreams, capturedSubtitles, bestStream,
                   foundMasterPlaylist, clickAttempts, handled, eresult>>
    /\ UNCHANGED notCaptureVars

\* the loop condition fails: the attempts are used up or the detection window
\* is over
ClickLoopEnds ==
    /\ epc = "clicking"
    /\ epc' = "finalWait"
    /\ UNCHANGED <<engine, capturedStreams, capturedSubtitles, bestStream,
                   foundMasterPlaylist, clickAttempts, iterations, handled, eresult>>
    /\ UNCHANGED notCaptureVars

\* a click of the aggressive engine, which stands outside any inner try, fails:
\* the catch block returns { success: false, error: error.message }
ClickThrows ==
    /\ epc = "clicking"
    /\ engine = "aggressive"
    /\ LoopGoesOn
    /\ iterations' = iterations + 1
    /\ epc' = "caught"
    /\ eresult' = Caught
    /\ UNCHANGED <<engine, capturedStreams, capturedSubtitles, bestStream,
                   foundMasterPlaylist, clickAttempts, handled>>
    /\ UNCHANGED notCaptureVars

\* all_streams: allStreams.map(s => ({ url, priority })), with the source in the
\* aggressive engine
Listed(e, s) ==
    IF e = "pooled" THEN [url |-> s.url, priority |-> s.priority]
    ELSE [url |-> s.url, priority |-> s.priority, source |-> s.source]

\* the result the try block returns after the final wait
ResultOf(e, streams, subtitles, attempts) ==
    LET allStreams == SortByPriority(streams) IN
    IF Len(allStreams) > 0
    THEN IF e = "pooled"
         THEN [ success |-> TRUE,
                stream_url |-> allStreams[1].url,
                headers |-> allStreams[1].headers,
                subtitles |-> subtitles,
                all_streams |-> [ i \in 1..Len(allStreams) |-> Listed(e, allStreams[i]) ] ]
         ELSE [ success |-> TRUE,
                stream_url |-> allStreams[1].url,
                headers |-> allStreams[1].headers,
                all_streams |-> [ i \in 1..Len(allStreams) |-> Listed(e, allStreams[i]) ] ]
    ELSE IF e = "pooled" THEN NoStreams
         ELSE [success |-> FALSE, error |-> "No streams detected", attempted_clicks |-> attempts]

\* a faulty variant of Done: the result is computed again from what has been
\* captured since
Done_again ==
    /\ epc \in {"finalWait", "cleanup"}
    /\ epc' = IF epc = "finalWait" THEN "done" ELSE epc
    /\ bestStream' = IF Len(capturedStreams) > 0
                     THEN SortByPriority(capturedStreams)[1] ELSE bestStream
    /\ eresult' = ResultOf(engine, capturedStreams, capturedSubtitles, clickAttempts)
    /\ UNCHANGED <<engine, capturedStreams, capturedSubtitles, foundMasterPlaylist,
                   clickAttempts, iterations, handled>>
    /\ UNCHANGED notCaptureVars

\* the final wait is over: the result is computed and returned
Done ==
    /\ epc = "finalWait"
    /\ epc' = "done"
    /\ bestStream' = IF Len(capturedStreams) > 0
                     THEN SortByPriority(capturedStreams)[1] ELSE bestStream
    /\ eresult' = ResultOf(engine, capturedStreams, capturedSubtitles, clickAttempts)
    /\ UNCHANGED <<engine, capturedStreams, capturedSubtitles, foundMasterPlaylist,
                   clickAttempts, iterations, handled>>
    /\ UNCHANGED notCaptureVars

\* the finally block starts, after the try block's return or the catch block's:
\* it awaits browser.pages() (aggressive engine: browser.close()), and until
\* the page is closed its handlers still run
FinallyBegins ==
    /\ epc \in {"done", "caught"}
    /\ epc' = "cleanup"
    /\ UNCHANGED <<engine, capturedStreams, capturedSubtitles, bestStream,
                   foundMasterPlaylist, clickAttempts, iterations, handled, eresult>>
    /\ UNCHANGED notCaptureVars

\* the finally block has closed the page
FinallyEnds ==
    /\ epc = "cleanup"
    /\ epc' = "closed"
    /\ UNCHANGED <<engine, capturedStreams, capturedSubtitles, bestStream,
                   foundMasterPlaylist, clickAttempts, iterations, handled, eresult>>
    /\ UNCHANGED notCaptureVars

NextCapture ==
    \/ \E request \in PageRequests : RequestSeen(request)
    \/ \E response \in Responses, referer \in Referers : ResponseSeen(response, referer)
    \/ \E response \in Responses : BodyScanned(response)
    \/ \E text \in ConsoleTexts : ConsoleSeen(text)
    \/ ClickAttemptEnds
    \/ ClickAttemptThrows
    \/ ClickLoopEnds
    \/ ClickThrows
    \/ Done
    \/ FinallyBegins
    \/ FinallyEnds


(***************************************************************************)
(* The popup killers of one pooled browser.  Every extraction that runs on *)
(* the browser opens its page and then registers a 'targetcreated'         *)
(* listener on the browser; no listener is ever removed, and the browser   *)
(* goes back to the pool with those of all its earlier extractions.        *)
(***************************************************************************)
Pages == 1..MaxPages

InitPopup ==
    /\ ppc = "pooled"
    /\ page = 0
    /\ pages = {}
    /\ killers = {}
    /\ created = {}
    /\ opened = 0

\* the 'targetcreated' event of a new page: every listener registered on the
\* browser is called with it and awaits target.page()
Dispatched(target) == { <<k, target>> : k \in killers }

\* the browser has been acquired from the pool: browser.newPage()
NewPage ==
    /\ ppc = "pooled"
    /\ opened < MaxPages
    /\ opened' = opened + 1
    /\ page' = opened'
    /\ pages' = pages \cup {opened'}
    /\ created' = created \cup Dispatched(opened')
    /\ ppc' = "instrumenting"
    /\ UNCHANGED killers
    /\ UNCHANGED notPopupVars

\* the page is set up and browser.on('targetcreated', ...) registers the popup
\* killer of this extraction, whose closure holds its page
KillerRegistered ==
    /\ ppc = "instrumenting"
    /\ page \in pages
    /\ killers' = killers \cup {page}
    /\ ppc' = "extracting"
    /\ UNCHANGED <<page, pages, created, opened>>
    /\ UNCHANGED notPopupVars

\* the site opens a popup while the extraction runs
PopupOpens ==
    /\ ppc = "extracting"
    /\ opened < MaxPages
    /\ opened' = opened + 1
    /\ pages' = pages \cup {opened'}
    /\ created' = created \cup Dispatched(opened')
    /\ UNCHANGED <<ppc, page, killers>>
    /\ UNCHANGED notPopupVars

\* if (newPage && newPage !== page), in the listener whose closure holds page k
Kills(k, newPage) == newPage \in pages /\ newPage # k

\* target.page() settles in the listener of page k: await newPage.close()
KillerRuns(k, newPage) ==
    /\ <<k, newPage>> \in created
    /\ created' = created \ {<<k, newPage>>}
    /\ pages' = IF Kills(k, newPage) THEN pages \ {newPage} ELSE pages
    /\ UNCHANGED <<ppc, page, killers, opened>>
    /\ UNCHANGED notPopupVars

\* the extraction uses its page after that was closed: the call throws, and the
\* catch block returns { success: false, error: error.message }
PageGone ==
    /\ ppc \in {"instrumenting", "extracting"}
    /\ page \notin pages
    /\ ppc' = "failed"
    /\ UNCHANGED <<page, pages, killers, created, opened>>
    /\ UNCHANGED notPopupVars

\* the finally block: every page but the browser's first is closed and the
\* browser is released to the pool, its listeners still registered
PagesClosed ==
    /\ ppc \in {"extracting", "failed"}
    /\ pages' = {}
    /\ page' = 0
    /\ ppc' = "pooled"
    /\ UNCHANGED <<killers, created, opened>>
    /\ UNCHANGED notPopupVars

NextPopup ==
    \/ NewPage
    \/ KillerRegistered
    \/ PopupOpens
    \/ \E k \in Pages, newPage \in Pages : KillerRuns(k, newPage)
    \/ PageGone
    \/ PagesClosed

(***************************************************************************)
(* Specifications                                                          *)
(***************************************************************************)
Init == InitQueue /\ InitPool /\ InitClients(NumClients) /\ InitCache /\ InitServer
    /\ InitCapture({"pooled"})
    /\ InitPopup

InitApi == InitQueue /\ InitPool /\ InitClients(NumCallers) /\ InitCache /\ InitServer
    /\ InitCapture({"pooled"})
    /\ InitPopup

SpecQueue == Init /\ [][NextQueue]_vars

\* every timer fires and every admitted task settles
SpecQueueFair ==
    /\ SpecQueue
    /\ \A c \in QCallers : WF_vars(Wake(c)) /\ WF_vars(Complete(c))

SpecPool == Init /\ [][NextPool]_vars

\* every launch settles and every timer fires
SpecPoolFair ==
    /\ SpecPool
    /\ WF_vars(InitLaunch)
    /\ \A c \in 1..NumClients :
          /\ WF_vars(AcquireAfterInit(c))
          /\ WF_vars(AcquireWake(c))
          /\ WF_vars(AcquireReplaceLaunched(c))
          /\ WF_vars(AcquireTempLaunched(c))

\* moreover every extraction that holds a browser goes on: its page work ends
\* (every wait of the try block is bounded by a timeout) and browser.pages() settles
SpecPoolRunFair ==
    /\ SpecPoolFair
    /\ \A c \in 1..NumClients :
          /\ WF_vars(ExtractionStarts(c))
          /\ WF_vars(ExtractionFailsToAcquire(c))
          /\ WF_vars(TryEnds(c))
          /\ WF_vars(ExtractionEnds(c))

SpecPoolApi == InitApi /\ [][NextPoolApi]_vars

SpecCache == Init /\ [][NextCache]_vars

SpecExtract == Init /\ [][NextExtract]_vars

SpecServer == Init /\ [][NextServer]_vars

\* one run of either engine
InitRun == InitQueue /\ InitPool /\ InitClients(NumClients) /\ InitCache /\ InitServer
    /\ InitCapture(Engines)
    /\ InitPopup

SpecCapture == InitRun /\ [][NextCapture]_vars

\* the extractions of one pooled browser and their popup killers
SpecPopup == Init /\ [][NextPopup]_vars

(***************************************************************************)
(* Claims: the admission queue                                             *)
(***************************************************************************)
\* the calls whose task is executing
Executing == { c \in QCallers : qpc[c] = "running" }

\* the calls that have been submitted
Submitted == { c \in QCallers : qpc[c] # "idle" }

\* C1: under every interleaving of process() calls, timer wake-ups and task
\* completions, the number of tasks executing at the same time, which is what
\* the `running` counter holds, never exceeds maxConcurrent and never goes below 0.
C1_RunningBounded ==
    /\ running = Cardinality(Executing)
    /\ running >= 0
    /\ running <= maxConcurrent

\* the queue is full, a call is waiting and an earlier call has completed
C1_Witness ==
    /\ running = maxConcurrent
    /\ \E c \in QCallers : qpc[c] = "waiting"
    /\ \E c \in QCallers : qpc[c] \in {"returned", "threw"}

\* C3: with capacity + k tasks submitted and none of them released, getStats()
\* reports running = capacity, queued = k and capacity = maxConcurrent.
C3_StatsReportWaiting ==
    ( /\ \A c \in Submitted : qpc[c] \in {"running", "waiting"}
      /\ Cardinality(Submitted) >= maxConcurrent )
    => /\ getStats.running = maxConcurrent
       /\ getStats.queued = Cardinality(Submitted) - maxConcurrent
       /\ getStats.capacity = maxConcurrent

\* C4: when every timer fires and every admitted task settles, every submitted
\* process() call, also one that found the queue at capacity, eventually runs its
\* task and gives its caller the task's own result (or the task's own error).
C4_EventuallyServed ==
    \A c \in QCallers :
        (qpc[c] # "idle") ~>
            \/ qpc[c] = "returned" /\ qret[c] = TaskResult(c)
            \/ qpc[c] = "threw" /\ qret[c] = <<"error", c>>

\* a call that had to wait has returned its task's result
C4_Witness ==
    \E c \in QCallers : qwaited[c] /\ qpc[c] = "returned" /\ qret[c] = TaskResult(c)

(***************************************************************************)
(* Claims: the browser pool                                                *)
(***************************************************************************)
\* the clients that hold a browser acquire() returned and have not released it
Leased(c) == pc[c] \in {"acquired", "working", "cleanup"}

\* C5: after any sequence of initialize, acquire and release calls, also with
\* acquires that replace a disconnected instance, `browsers` never holds more
\* than poolSize instances.
C5_ManagedWithinPoolSize == Len(browsers) <= poolSize

\* C6: a browser is leased to at most one extraction at a time: two clients that
\* hold a browser (whether or not their outer deadline has fired) hold different
\* ones, and a held browser is not in the available set, so no acquire() can
\* return it before it is released.
C6_ExclusiveLease ==
    \A c \in Clients :
        Leased(c) =>
            /\ handle[c] # NoBrowser
            /\ handle[c] \notin Range(available)
            /\ \A d \in Clients \ {c} : Leased(d) => handle[d] # handle[c]

\* two extractions hold the two pool browsers, and the outer deadline of the
\* earlier one has fired
C6_Witness ==
    \E c, d \in Clients :
        /\ c < d
        /\ pc[c] = "working" /\ isPoolBrowser[c] /\ abandoned[c]
        /\ pc[d] = "working" /\ isPoolBrowser[d] /\ ~abandoned[d]
        /\ handle[c] # handle[d]

\* the client's acquire() call was made while no managed instance was available
CalledWithNoneAvailable(c) == callPool[c] \in {"exhausted", "cold"}

\* a step of client c that leaves the managed and the available set alone, returns
\* an instance outside the managed set, and closes it on release(handle, true)
TemporaryStep(c) ==
    /\ browsers' = browsers
    /\ available' = available
    /\ pc'[c] = "acquired" =>
          handle'[c] \notin Range(browsers') \cup Range(available')
    /\ pc'[c] = "releasedTemporary" =>
          handle[c] \in closed' /\ handle[c] \notin connected'

C8_DeadInstanceDiscarded ==
    \A c \in Clients :
        (pc[c] = "acquired" /\ taken[c] # NoBrowser /\ handle[c] # taken[c]) =>
            /\ taken[c] \notin Range(available)
            /\ taken[c] \notin Range(browsers)

\* C9: initialize() always runs to its end, also when launches fail: when it
\* ends the flag is reset and the managed and the available set hold exactly the
\* instances it launched; and every acquire() waiting on it eventually proceeds.
C9_InitializeCompletes ==
    /\ [][ (InitRunning /\ ~InitRunning') =>
              /\ ~initializing'
              /\ available' = browsers'
              /\ Range(browsers') = initLaunched' ]_vars
    /\ (InitRunning ~> ~initializing)
    /\ \A c \in 1..NumClients :
          (pc[c] = "waitInit") ~> (pc[c] \in {"acquired", "acquireFailed"})

\* initialize() ended with one launch failed; of two acquire() calls made during
\* it, which had to wait, one got the pooled instance and one a temporary instance
C9_Witness ==
    /\ ~initializing
    /\ Len(browsers) = 1
    /\ \E c, d \in Clients :
          /\ callPool[c] = "cold" /\ pc[c] = "acquired" /\ handle[c] \in Range(browsers)
          /\ callPool[d] = "cold" /\ pc[d] = "acquired" /\ handle[d] \notin Range(browsers)

(***************************************************************************)
(* Claims: the HTTP handler and the admission queue                        *)
(***************************************************************************)
\* C2: every extraction started by an /extract request goes through the
\* admission queue, so at most maxConcurrent extractions run at the same time,
\* however many requests arrive.
C2_ExtractionsBounded == Cardinality(Extracting) <= maxConcurrent

(***************************************************************************)
(* Claims: the result cache                                                *)
(***************************************************************************)
\* this step is a get(k) made less than ttl after the last set(k, _)
GetWithinTtl(k) ==
    /\ lastGet' # lastGet
    /\ lastGet'.url = k
    /\ k \in DOMAIN lastSet
    /\ now - lastSet[k].timestamp < ttl

\* C10: a get(k) made before the TTL has elapsed since the last set(k, r)
\* returns exactly r and leaves the entry, and the rest of the cache, as it was.
C10_RoundTrip ==
    [][ \A k \in Urls :
          GetWithinTtl(k) =>
              /\ lastGet'.result = lastSet[k].result
              /\ cache' = cache
              /\ k \in DOMAIN cache'
              /\ cache'[k].result = lastSet[k].result ]_vars

\* a get(k) has returned the result stored ttl - 1 minutes before, and the
\* entry is still there
C10_Witness ==
    /\ lastGet # << >>
    /\ lastGet.url \in DOMAIN lastSet
    /\ lastGet.result = lastSet[lastGet.url].result
    /\ lastGet.result # null
    /\ now - lastSet[lastGet.url].timestamp = ttl - 1
    /\ lastGet.url \in DOMAIN cache

\* C11: a get(k) on an entry older than the ttl returns null and removes that
\* entry, leaving the entries of the other keys as they were; a get(k) on a
\* missing entry returns null; and a missing entry comes back only by a set(k, _).
C11_ExpiredGetEvicts ==
    [][ \A k \in Urls :
          /\ (Get(k) /\ k \in DOMAIN cache /\ now - cache[k].timestamp > ttl) =>
                /\ lastGet'.result = null
                /\ k \notin DOMAIN cache'
                /\ \A j \in DOMAIN cache \ {k} :
                      j \in DOMAIN cache' /\ cache'[j] = cache[j]
          /\ (Get(k) /\ k \notin DOMAIN cache) =>
                /\ lastGet'.result = null
                /\ cache' = cache
          /\ (k \notin DOMAIN cache /\ k \in DOMAIN cache') =>
                /\ k \in DOMAIN lastSet'
                /\ lastSet'[k].timestamp = now
                /\ cache'[k] = lastSet'[k] ]_vars

\* a get() has just deleted an expired entry while another key's entry is stored
C11_Witness ==
    /\ lastGet # << >>
    /\ lastGet.evicted
    /\ lastGet.result = null
    /\ lastGet.url \notin DOMAIN cache
    /\ \E j \in Urls \ {lastGet.url} : j \in DOMAIN cache

\* C13: a result stored for a url is served from the cache by every get() for
\* that url made within 30 minutes of the store.
C13_ServedForThirtyMinutes ==
    [][ \A k \in Urls :
          (Get(k) /\ k \in DOMAIN lastSet
                  /\ now - lastSet[k].timestamp <= DocumentedTtl) =>
              lastGet'.result = lastSet[k].result ]_vars

\* C15: a sweep removes exactly the entries older than the ttl, and leaves every
\* other entry (key, result and timestamp) as it was.
C15_SweepRemovesExactlyExpired ==
    [][ Sweep =>
          /\ DOMAIN cache' \subseteq DOMAIN cache
          /\ \A k \in DOMAIN cache :
                IF now - cache[k].timestamp > ttl
                THEN k \notin DOMAIN cache'
                ELSE k \in DOMAIN cache' /\ cache'[k] = cache[k] ]_vars

\* no get() was ever made, so only a sweep can have removed the expired entry of
\* one url, and it has kept the younger entry of another url as it was stored
C15_Witness ==
    /\ lastGet = << >>
    /\ \E k, j \in Urls :
          /\ k \in DOMAIN lastSet /\ k \notin DOMAIN cache
          /\ j \in DOMAIN cache /\ cache[j] = lastSet[j]
          /\ now - cache[j].timestamp > 0
          /\ now - cache[j].timestamp <= ttl

(***************************************************************************)
(* Claims: the finally block of extractStreamsInternal                     *)
(***************************************************************************)
\* the step in which the finally block of client c ends
CleanupEnds(c) == pc[c] = "cleanup" /\ pc'[c] = "done"

\* after this step the lease of client c is restored: a pool browser is back in
\* the available set, a temporary one is closed
LeaseRestored(c) ==
    IF isPoolBrowser[c]
    THEN handle[c] \in Range(available')
    ELSE handle[c] \in closed'

\* C18: an extraction whose outer deadline has fired runs on to its end; the
\* browser it holds stays out of the available set until its finally block has
\* run, and that block returns a pool browser to the available set or closes a
\* temporary one.
C18_AbandonedExtractionCleansUp ==
    /\ [](\A c \in 1..NumClients :
            (abandoned[c] /\ Leased(c)) => handle[c] \notin Range(available))
    /\ [][ \A c \in 1..NumClients :
              (abandoned[c] /\ CleanupEnds(c)) => LeaseRestored(c) ]_vars
    /\ \A c \in 1..NumClients :
          (abandoned[c] /\ Leased(c)) ~> (pc[c] = "done")

\* C19: when extractStreamsInternal ends, on any path, a browser of the managed
\* pool is back in the available set and a temporary browser has been closed.
C19_CleanupRestoresLease ==
    [][ \A c \in Clients : CleanupEnds(c) => LeaseRestored(c) ]_vars

\* C20: whatever fails in the finally block, extractStreamsInternal does not
\* reject: its promise resolves with the result object that the try or catch
\* block had returned before the finally block ran.
C20_CleanupNeverSurfaces ==
    /\ [][ \A c \in Clients :
              /\ CleanupEnds(c) =>
                    /\ decided[c] \in InternalResults(c)
                    /\ settled'[c] = [kind |-> "resolved", value |-> decided[c]]
              /\ (pc[c] = "acquireFailed" /\ pc'[c] = "done") =>
                    /\ settled'[c].kind = "resolved"
                    /\ ~settled'[c].value.success ]_vars
    /\ [](\A c \in 1..NumClients :
            settled[c] # NoResult => settled[c].kind = "resolved")

\* the only extraction made so far has resolved with a successful result although
\* its finally block failed: the managed browser it held was closed, not released
C20_Witness ==
    /\ pc[1] = "done"
    /\ \A d \in Clients \ {1} : pc[d] = "idle"
    /\ settled[1].kind = "resolved"
    /\ settled[1].value.success
    /\ \E b \in Range(browsers) : b \in closed /\ b \notin Range(available)

(***************************************************************************)
(* Claims: extractStreams and the result cache                             *)
(***************************************************************************)
\* C12: every cache entry holds a successful result, and a step in which an
\* extraction fails (no streams found, an error, an acquire() that rejected, or
\* the timeout, also when the timed-out extraction ends later) stores nothing.
C12_OnlySuccessCached ==
    /\ [](\A k \in Urls : k \in DOMAIN cache => cache[k].result.success)
    /\ [][ \A c \in 1..NumClients :
              /\ (CleanupEnds(c) /\ (~decided[c].success \/ abandoned[c])) =>
                    cache' = cache
              /\ (pc[c] = "acquireFailed" /\ pc'[c] = "done") => cache' = cache
              /\ (~abandoned[c] /\ abandoned'[c]) => cache' = cache ]_vars

\* one extraction has stored its successful result, and a later one for another
\* url has returned a failure to its caller, which is not in the cache
C12_Witness ==
    \E c, d \in 1..NumClients :
        /\ xret[c] # NoResult /\ xret[c].kind = "resolved" /\ xret[c].value.success
        /\ xurl[c] \in DOMAIN cache /\ cache[xurl[c]].result = xret[c].value
        /\ xret[d] # NoResult /\ xret[d].kind = "resolved" /\ ~xret[d].value.success
        /\ xurl[d] # 0 /\ xurl[d] \notin DOMAIN cache
        /\ pc[d] = "done"

\* C14: an extractStreams() call that finds an unexpired entry for its url
\* returns that entry's result at once; it acquires and launches no browser, then
\* or later, and leaves the pool (managed and available set) as it was.
C14_HitShortCircuits ==
    [][ \A c \in 1..NumClients :
          /\ \A k \in Urls :
                (xurl[c] = 0 /\ xurl'[c] = k /\ k \in DOMAIN cache
                             /\ now - cache[k].timestamp <= ttl) =>
                    /\ xret'[c] = [kind |-> "resolved", value |-> cache[k].result]
                    /\ pc'[c] = "idle"
                    /\ browsers' = browsers
                    /\ available' = available
                    /\ nextId' = nextId
                    /\ cache' = cache
          /\ (xurl[c] # 0 /\ pc[c] = "idle") => pc'[c] = "idle" ]_vars

\* a call was answered from the cache without leaving the idle state, while the
\* call that had stored the entry has ended
C14_Witness ==
    \E c, d \in 1..NumClients :
        /\ c < d
        /\ pc[c] = "done" /\ xret[c] # NoResult /\ xret[c].value.success
        /\ xurl[d] = xurl[c]
        /\ pc[d] = "idle" /\ xret[d] # NoResult
        /\ xurl[d] \in DOMAIN cache
        /\ xret[d] = [kind |-> "resolved", value |-> cache[xurl[d]].result]
        /\ lastGet.url = xurl[d] /\ ~lastGet.evicted

(***************************************************************************)
(* Claims: the retry of the HTTP handler                                   *)
(***************************************************************************)
\* the handler of request r has ended after at least one extraction attempt
Ended(r) == rpc[r] \in {"responded", "threw"} /\ rattempts[r] > 0

\* C16: a request makes at most two extraction attempts; once its handler has
\* ended, it has made exactly one attempt if the first one succeeded, and exactly
\* two (one retry) if the first one failed, for whatever reason.
C16_OneRetryIffFirstFailed ==
    \A r \in Requests :
        /\ rattempts[r] <= 2
        /\ Ended(r) => rattempts[r] = (IF rfirst[r] = "success" THEN 1 ELSE 2)

\* C17: an attempt that runs into the outer deadline is handed to the handler as
\* a failure result: a timed-out first attempt is followed by the retry, and no
\* handler ends without a structured answer.
C17_TimeoutIsFailureResult ==
    /\ [][ \A r \in Requests :
              (rfirst[r] = "-" /\ rfirst'[r] = "timeout") => rpc'[r] = "retryWait" ]_vars
    /\ [](\A r \in Requests : Ended(r) => rstatus[r] \in {200, 404})

(***************************************************************************)
(* Claims: the result of an extraction run                                 *)
(***************************************************************************)
\* the urls of a sequence of candidates
UrlsOf(s) == { s[i].url : i \in 1..Len(s) }

\* the run is over and returned a successful result
Succeeded == epc = "done" /\ eresult.success

\* the listed candidates stand in descending order of priority
Descending(l) == \A i, j \in 1..Len(l) : i < j => l[i].priority >= l[j].priority

\* the result is computed from all the captured candidates, each listed once:
\* it is a success exactly if there is one, and then all_streams is in
\* descending order of priority and stream_url is its first url
FromFullSet ==
    /\ eresult.success <=> Len(capturedStreams) > 0
    /\ eresult.success =>
          /\ Len(eresult.all_streams) = Len(capturedStreams)
          /\ UrlsOf(eresult.all_streams) = UrlsOf(capturedStreams)
          /\ Cardinality(UrlsOf(eresult.all_streams)) = Len(eresult.all_streams)
          /\ Descending(eresult.all_streams)
          /\ eresult.stream_url = eresult.all_streams[1].url

CapturePlace(m, u) == CHOOSE i \in 1..Len(m) : m[i].url = u

\* the urls captured so far keep their places: new ones go to the end
FirstSeenOrderKept ==
    /\ Len(capturedStreams') >= Len(capturedStreams)
    /\ \A i \in 1..Len(capturedStreams) : capturedStreams'[i].url = capturedStreams[i].url

\* candidates of equal priority are listed in the order of their capture
TiesInCaptureOrder ==
    Succeeded =>
        \A i, j \in 1..Len(eresult.all_streams) :
            (i < j /\ eresult.all_streams[i].priority = eresult.all_streams[j].priority)
                => CapturePlace(capturedStreams, eresult.all_streams[i].url)
                     < CapturePlace(capturedStreams, eresult.all_streams[j].url)

\* C22: candidates of equal priority appear in the final ranked output in
\* first-seen order: a url keeps the place of its first capture when it is
\* sighted again, and the sort keeps that order among equal priorities.
C22_TiesInFirstSeenOrder == [][ FirstSeenOrderKept /\ TiesInCaptureOrder' ]_vars

\* two candidates of equal priority are captured, and the first of them has been
\* sighted again since it was bestStream (its headers are no longer those
\* bestStream holds) and still stands first
C22_Witness ==
    /\ epc = "finalWait"
    /\ Len(capturedStreams) = 2
    /\ capturedStreams[1].priority = capturedStreams[2].priority
    /\ bestStream # null
    /\ bestStream.url = capturedStreams[1].url
    /\ bestStream.headers # capturedStreams[1].headers

\* C23: candidates are deduplicated by url, and a later sighting of a captured
\* url, through whatever channel, leaves the headers of its first sighting.
C23_FirstHeadersKept ==
    [][ /\ Cardinality(UrlsOf(capturedStreams')) = Len(capturedStreams')
        /\ \A i \in 1..Len(capturedStreams) :
              /\ i <= Len(capturedStreams')
              /\ capturedStreams'[i].url = capturedStreams[i].url
              /\ capturedStreams'[i].headers = capturedStreams[i].headers ]_vars

\* ---- C24
Quote == "\""

\* u is an http(s) url that ends in .m3u8, or in .m3u8 and a query string
EndsInM3u8(u) ==
    /\ occursAt(u, <<"h", "t", "t", "p", "s", ":", "/", "/">>, 1) \/ occursAt(u, <<"h", "t", "t",
        "p", ":", "/", "/">>, 1)
    /\ \A i \in 1..Len(u) : u[i] \notin Delimiters
    /\ \E i \in 10..(Len(u) - 4) :
          /\ occursAt(u, <<".", "m", "3", "u", "8">>, i)
          /\ (i + 4 = Len(u) \/ u[i + 5] = "?")

\* the urls that a text holds as quoted strings
QuotedIn(text) ==
    { SubSeq(text, i + 1, j - 1) :
        <<i, j>> \in { p \in (1..Len(text)) \X (1..Len(text)) :
                         /\ p[1] + 1 < p[2]
                         /\ text[p[1]] = Quote /\ text[p[2]] = Quote
                         /\ \A k \in (p[1] + 1)..(p[2] - 1) : text[k] # Quote } }

\* per response with a JSON content type, the urls ending in .m3u8 that its
\* body holds as quoted strings
JsonManifestUrls ==
    [ r \in { s \in Responses : includes(s.contentType, <<"j", "s", "o", "n">>) } |->
        { u \in QuotedIn(r.text) : EndsInM3u8(u) } ]

\* C24: when the body of a response with a JSON content type holds (as a quoted
\* string) an http(s) url ending in .m3u8, with or without a query string, that
\* was not captured before, the scan of the body records a candidate with
\* exactly that url and the response's own url as Referer; and every captured
\* candidate is listed in the result.
C24_BodyUrlBecomesCandidate ==
    /\ [][ \A r \in DOMAIN JsonManifestUrls :
              BodyScanned(r) =>
                  \A u \in JsonManifestUrls[r] :
                      ~MapHas(capturedStreams, u) =>
                          \E i \in 1..Len(capturedStreams') :
                              /\ capturedStreams'[i].url = u
                              /\ capturedStreams'[i].headers.Referer = r.url ]_vars
    /\ [](Succeeded => UrlsOf(capturedStreams) \subseteq UrlsOf(eresult.all_streams))

\* the result lists the url found in the body of the JSON response, with
\* the response's url as its Referer
C24_Witness ==
    /\ Succeeded
    /\ eresult.stream_url = <<"h", "t", "t", "p", "s", ":", "/", "/", "c", "d", "n", ".", "x", ".",
        "c", "o", "m", "/", "a", "/", "m", "a", "s", "t", "e", "r", ".", "m", "3", "u", "8", "?",
        "t", "=", "1">>
    /\ eresult.headers.Referer = <<"h", "t", "t", "p", "s", ":", "/", "/", "a", "p", "i", ".", "x",
        ".", "c", "o", "m", "/", "s", "o", "u", "r", "c", "e", ".", "j", "s", "o", "n">>

(***************************************************************************)
(* Claims: the answers of the HTTP handler                                 *)
(***************************************************************************)
\* C25: a request with a missing or malformed url parameter is answered with
\* HTTP 400 and no extractStreams() call is made for it, first or retried (the
\* cache lookup, the acquire and the launch only happen inside such a call).
C25_InvalidUrlIsRejectedFirst ==
    \A r \in Requests :
        rquery[r] \in {"missing", "malformed"} =>
            /\ rpc[r] = "responded"
            /\ rstatus[r] = 400
            /\ rattempts[r] = 0
            /\ rfirst[r] = "-" /\ rlast[r] = "-"

\* a malformed url was answered with 400 while another request is extracting
C25_Witness ==
    \E r, s \in Requests :
        /\ rquery[r] = "malformed" /\ rstatus[r] = 400
        /\ rquery[s] = "valid" /\ s \in Extracting

\* C26: 404 is only the answer to an extraction that ran fully and found
\* nothing, and a request whose two attempts both failed for want of a browser
\* is answered with 500.
C26_StatusSeparatesFailures ==
    \A r \in Requests :
        /\ rstatus[r] = 404 => rlast[r] = "failure"
        /\ (rpc[r] = "responded" /\ rfirst[r] = "caught" /\ rlast[r] = "caught")
              => rstatus[r] = 500

(***************************************************************************)
(* Claims: the priority of a url                                           *)
(***************************************************************************)
\* a manifest url in the sense of C27: it contains .m3u8 and does not match the
\* segment pattern
IsManifest(url) == includes(url, <<".", "m", "3", "u", "8">>) /\ ~testSegment(url)

\* C27: segments never outrank manifests: a url that matches the segment
\* pattern has a lower priority than any manifest url.
C27_SegmentsBelowManifests ==
    \A i, j \in 1..Len(capturedStreams) :
        (testSegment(capturedStreams[i].url) /\ IsManifest(capturedStreams[j].url))
            => capturedStreams[i].priority < capturedStreams[j].priority

\* the additive table of C28
TablePriority(url) ==
      (IF includes(url, <<".", "m", "3", "u", "8">>) THEN 10 ELSE 0)
    + (IF includes(url, <<".", "m", "p", "d">>) THEN 8 ELSE 0)
    + (IF includes(url, <<"m", "a", "s", "t", "e", "r">>) THEN 5 ELSE 0)
    + (IF includes(url, <<"i", "n", "d", "e", "x">>) THEN 4 ELSE 0)
    + (IF includes(url, <<"m", "a", "n", "i", "f", "e", "s", "t">>) THEN 3 ELSE 0)
    + (IF includes(url, <<"p", "l", "a", "y", "l", "i", "s", "t">>) THEN 3 ELSE 0)
    + (IF includes(url, <<".", "m", "p", "4">>) THEN 2 ELSE 0)
    - (IF testSegment(url) THEN 5 ELSE 0)

\* C28: the priority an engine gives a url is the sum of the table: +10 .m3u8,
\* +8 .mpd, +5 master, +4 index, +3 manifest, +3 playlist, +2 .mp4, -5 for the
\* segment pattern; in the pooled engine as in the aggressive one.
C28_PriorityIsTheTable ==
    \A i \in 1..Len(capturedStreams) :
        capturedStreams[i].priority = TablePriority(capturedStreams[i].url)

(***************************************************************************)
(* Claims: subtitles                                                       *)
(***************************************************************************)
\* the validity C29 describes: a subtitle extension at the end or before a "?",
\* none of the tracker words, at least 20 characters
DescribedAsValid(url) ==
    /\ \E ext \in { <<".", "v", "t", "t">>, <<".", "s", "r", "t">>, <<".", "a", "s", "s">>, <<".",
        "s", "s", "a">> } :
          testEndOrQuery(toLowerCase(url), ext)
    /\ \A word \in { <<"a", "n", "a", "l", "y", "t", "i", "c", "s">>, <<"t", "r", "a", "c", "k", "i",
        "n", "g">>, <<"p", "i", "x", "e", "l">>, <<"b", "e", "a", "c", "o", "n">> } :
          ~includes(url, word)
    /\ Len(url) >= 20

\* C29: every subtitle of a returned result is valid as described, and
\* https://cdn.x.com/tracking/pixel.vtt is never one of them (the results of the
\* aggressive engine carry no subtitles).
C29_ReturnedSubtitlesAreValid ==
    (Succeeded /\ "subtitles" \in DOMAIN eresult) =>
        \A i \in 1..Len(eresult.subtitles) :
            /\ DescribedAsValid(eresult.subtitles[i].url)
            /\ eresult.subtitles[i].url # <<"h", "t", "t", "p", "s", ":", "/", "/", "c", "d", "n",
                ".", "x", ".", "c", "o", "m", "/", "t", "r", "a", "c", "k", "i", "n", "g", "/", "p",
                "i", "x", "e", "l", ".", "v", "t", "t">>

\* a result of the pooled engine that carries a subtitle whose extension is in
\* upper case and followed by a query string
C29_Witness ==
    /\ Succeeded
    /\ engine = "pooled"
    /\ \E i \in 1..Len(eresult.subtitles) :
          eresult.subtitles[i].url = <<"h", "t", "t", "p", "s", ":", "/", "/", "c", "d", "n", ".",
              "x", ".", "c", "o", "m", "/", "s", "u", "b", "s", "/", "m", "o", "v", "i", "e", "_",
              "F", "R", ".", "S", "R", "T", "?", "l", "a", "n", "g", "=", "e", "s">>

\* the token shapes of a language code
TokenShapes(code) ==
    { <<"/">> \o code \o <<"/">>, <<"/">> \o code \o <<".">>, <<"_">> \o code \o <<".">>,
      <<"-">> \o code \o <<".">>, <<"=">> \o code \o <<"&">>, <<"l", "a", "n", "g", "=">> \o code,
      <<"l", "a", "n", "g", "u", "a", "g", "e", "=">> \o code }

\* the entries of the table whose code occurs in the lower-cased url in a
\* token shape
MatchingEntries(url) ==
    { n \in 1..Len(SUBTITLE_LANGUAGE_MAP) :
        \E shape \in TokenShapes(SUBTITLE_LANGUAGE_MAP[n][1]) :
            includes(toLowerCase(url), shape) }

\* the language C30 describes: that of the first matching entry, or "Unknown"
DescribedLanguage ==
    [ url \in KnownUrls |->
        IF MatchingEntries(url) = {} THEN "Unknown"
        ELSE SUBTITLE_LANGUAGE_MAP[CHOOSE n \in MatchingEntries(url) :
                                      \A k \in MatchingEntries(url) : n <= k][2] ]

\* C30: the language recorded with a subtitle is that of the first entry of the
\* table, in its order, whose code occurs in the lower-cased url in a token
\* shape, "Unknown" when there is none; https://cdn.x.com/subs/en.vtt gives
\* "English".
C30_LanguageOfFirstMatch ==
    /\ extractLanguageFromUrl(<<"h", "t", "t", "p", "s", ":", "/", "/", "c", "d", "n", ".", "x", ".",
        "c", "o", "m", "/", "s", "u", "b", "s", "/", "e", "n", ".", "v", "t", "t">>) = "English"
    /\ \A i \in 1..Len(capturedSubtitles) :
          capturedSubtitles[i].language = DescribedLanguage[capturedSubtitles[i].url]

\* a subtitle whose url holds two codes got the language of the one that comes
\* first in the table (es, before fr), and one without a code got "Unknown"
C30_Witness ==
    /\ \E i \in 1..Len(capturedSubtitles) :
          /\ capturedSubtitles[i].url = <<"h", "t", "t", "p", "s", ":", "/", "/", "c", "d", "n", ".",
              "x", ".", "c", "o", "m", "/", "s", "u", "b", "s", "/", "m", "o", "v", "i", "e", "_",
              "F", "R", ".", "S", "R", "T", "?", "l", "a", "n", "g", "=", "e", "s">>
          /\ capturedSubtitles[i].language = "Spanish"
    /\ \E i \in 1..Len(capturedSubtitles) : capturedSubtitles[i].language = "Unknown"

(***************************************************************************)
(* Claims: the click loop, the handlers and the end of an extraction run   *)
(***************************************************************************)
\* a captured candidate looks like a master playlist
MasterCaptured ==
    \E i \in 1..Len(capturedStreams) :
        UrlFacts[engine][capturedStreams[i].url].isMasterPlaylist

\* C31: during an extraction, after every event that has been processed,
\* bestStream is the captured candidate with the highest priority seen so
\* far, through whichever channel it was discovered.
C31_BestIsHighestSeen ==
    (epc \in {"clicking", "finalWait"} /\ Len(capturedStreams) > 0) =>
        /\ bestStream # null
        /\ \A i \in 1..Len(capturedStreams) :
              capturedStreams[i].priority <= bestStream.priority

\* C32: after each interaction attempt, if any candidate discovered so far,
\* through any channel, looks like a master playlist, the click loop is left
\* at once, with no further attempt, for the waits that lead to Done.
C32_MasterEndsLoop ==
    [][ (ClickAttemptEnds /\ MasterCaptured) =>
            (epc' = "finalWait" /\ clickAttempts' = clickAttempts) ]_vars

\* C33: the click loop never makes more than MAX_CLICK_ATTEMPTS iterations,
\* those in which a click or a probe throws included, and it ends in the
\* settle phase.
C33_LoopBoundedByAttempts ==
    iterations <= MAX_CLICK_ATTEMPTS(engine)

\* C34: no intermediate failure aborts the run: a failed navigation, an error
\* while probing or clicking, and an error while reading a response body are
\* caught where they happen, and the run goes on to Done, where its result is
\* computed from what was captured.
C34_NoFailureAborts ==
    [][ (epc = "clicking" => epc' \in {"clicking", "finalWait"})
        /\ (epc' = "cleanup" => eresult = ResultOf(engine, capturedStreams,
                                                   capturedSubtitles, clickAttempts)) ]_vars

\* C35: a request for an image, a stylesheet, a font or an imageset, or for a
\* url of a blocked domain, is aborted and never recorded, so that no
\* candidate of a run, and none of its result, has a url of a blocked domain.
C35_BlockedNeverRecorded ==
    /\ \A i \in 1..Len(capturedStreams) : ~UrlFacts[engine][capturedStreams[i].url].isBlocked
    /\ \A i \in 1..Len(capturedSubtitles) :
          ~UrlFacts[engine][capturedSubtitles[i].url].isBlocked
    /\ "all_streams" \in DOMAIN eresult =>
          \A i \in 1..Len(eresult.all_streams) :
              ~UrlFacts[engine][eresult.all_streams[i].url].isBlocked

\* the run has returned its result
Returned == epc \in {"done", "caught", "cleanup", "closed"}

\* C37: a result is immutable once it is produced: the requests, responses
\* and body scans that are handled after it was computed do not change it.
C37_ResultIsImmutable ==
    [][ Returned => (Returned' /\ eresult' = eresult) ]_vars

\* a run whose page was closed after a late event had added a candidate that
\* its result does not list
C37_Witness ==
    /\ epc = "closed"
    /\ eresult.success
    /\ UrlsOf(capturedStreams) # UrlsOf(eresult.all_streams)

\* the request is one the handler aborts
Aborted(request) ==
    request.resourceType \in BLOCKED_RESOURCES \/ UrlFacts[engine][request.url].isBlocked

\* C38: the request handler resolves every intercepted request exactly once:
\* it calls abort() on it or continue(), never both and never neither,
\* whatever its url and resource type, captured or not.
C38_ResolvedExactlyOnce ==
    [][ \A request \in PageRequests :
            RequestSeen(request) =>
                handled' = IF Aborted(request) THEN <<1, 0>> ELSE <<0, 1>> ]_vars

\* a blocked request was aborted after a stream and a subtitle had been
\* captured from requests that went on
C38_Witness ==
    /\ handled = <<1, 0>>
    /\ Len(capturedStreams) > 0
    /\ Len(capturedSubtitles) > 0

(***************************************************************************)
(* Claims: the popup killers of a pooled browser                           *)
(***************************************************************************)
\* C36: the popup killer closes every new page but the page of the running
\* extraction, which it never closes, in every extraction that runs on a
\* pooled browser: also in those that find on it the popup killers of earlier
\* extractions.
C36_PrimaryPageStaysOpen ==
    /\ ppc \in {"instrumenting", "extracting"} => page \in pages
    /\ ppc # "failed"

(***************************************************************************)
(* Claims: a task of the request queue that fails                          *)
(***************************************************************************)
\* C39: when the task given to process() throws or rejects, the error reaches
\* the caller and the slot is freed: `running` loses the one that the
\* admission of the task had added, so that the calls that threw hold no
\* capacity.
C39_FailedTaskFreesSlot ==
    [][ \A c \in QCallers :
            (qpc[c] = "running" /\ qpc'[c] = "threw") =>
                /\ qret'[c] = <<"error", c>>
                /\ running' = running - 1
                /\ running' = Cardinality({ d \in QCallers : qpc'[d] = "running" }) ]_vars

\* every task but one has thrown, and a call that had to wait for a slot runs
C39_Witness ==
    \E d \in QCallers :
        /\ qpc[d] = "running"
        /\ qwaited[d]
        /\ running = 1
        /\ \A c \in QCallers \ {d} : qpc[c] = "threw"

(***************************************************************************)
(* Claims: the available set of the pool                                   *)
(***************************************************************************)
\* C40: in every state of the pool the available set is a subset of the
\* managed set and holds no browser twice; release() adds a browser to it
\* only if `browsers` holds that browser.
C40_AvailableWithinManaged ==
    /\ Range(available) \subseteq Range(browsers)
    /\ Cardinality(Range(available)) = Len(available)

\* the browsers of the pool have been leased and released, the first of them
\* last, and a temporary browser has been closed instead
C40_Witness ==
    /\ Len(browsers) = 2
    /\ available = <<browsers[2], browsers[1]>>
    /\ \E b \in closed : b \notin Range(browsers)

=============================================================================
